---- MODULE Spec2Model ----
(***************************************************************************)
(* The reactivity core of vuejs/core 3.2.31 (packages/reactivity): the     *)
(* dependency graph (targetMap / Dep), ReactiveEffect.run / stop, track /  *)
(* trigger, the proxy handlers of plain objects and of keyed collections,  *)
(* ComputedRefImpl and RefImpl.                                            *)
(*                                                                         *)
(* The library is single-threaded and synchronous: a write runs every      *)
(* subscriber it triggers before it returns, and a subscriber may itself   *)
(* read, write, stop effects or read computed values.  Each public         *)
(* operation is therefore one action whose successor state is computed by  *)
(* the operators below, which are the library's functions translated one   *)
(* by one and pass the whole program state `s` along, as the JavaScript    *)
(* call stack does.                                                        *)
(***************************************************************************)
EXTENDS Integers, Sequences, FiniteSets, TLC

\* ------------------------------------------------------------------ bounds
\* numbers stored in reactive state range over 0..MaxVal
MaxVal == 2
\* nesting bound of effect runs inside one public operation; a deeper
\* nesting sets `overflow` (the JavaScript engine's stack overflow)
MaxDepth == 5

\* the reactive array holds at most MaxArr elements; a push beyond sets
\* `overflow`
MaxArr == 3
\* the most entries of trackStack that calls from outside of any effect
\* leave behind, and the most calls of one sequence of tracking calls
MaxTrack == 2
MaxCalls == 4

\* effect.ts: const maxMarkerBits = 30
maxMarkerBits == 30

\* ------------------------------------------------------------------ values
None == "none"

Num(i) == <<"num", i>>
NaN == <<"nan", 0>>
Undefined == <<"undefined", 0>>
\* a key that the raw object does not own
Absent == <<"absent", 0>>
\* a plain raw object and the reactive / readonly proxy made of it
RawObj(i) == <<"raw", i>>
ReactiveProxy(i) == <<"reactive", i>>
ReadonlyProxy(i) == <<"readonly", i>>
TrueV == <<"bool", 1>>
FalseV == <<"bool", 0>>

Nums == {Num(i) : i \in 0..MaxVal}

\* reactive.ts toRaw: the raw object behind a proxy, any other value as is
toRaw(v) == IF v[1] \in {"reactive", "readonly"} THEN RawObj(v[2]) ELSE v

\* reactive.ts toReactive: isObject(value) ? reactive(value) : value
toReactive(v) == IF v[1] = "raw" THEN ReactiveProxy(v[2]) ELSE v

\* reactive.ts isReadonly / isShallow
isReadonly(v) == v[1] = "readonly"
isShallow(v) == FALSE

\* ref.ts isRef: no ref object is stored inside the modelled containers
isRef(v) == v[1] = "ref"

\* @vue/shared hasChanged: !Object.is(value, oldValue); NaN is NaN
hasChanged(value, oldValue) == value # oldValue

\* what the read of an absent property yields
ReadVal(v) == IF v = Absent THEN Undefined ELSE v

\* JavaScript truthiness of the modelled values
Truthy(v) == ~(v \in {Num(0), NaN, Undefined, FalseV, Absent})

\* v + 1 on the bounded numbers (wraps at MaxVal), NaN for a non-number
Succ(v) == IF v[1] = "num" THEN Num((v[2] + 1) % (MaxVal + 1)) ELSE NaN

\* ------------------------------------------------------------- the objects
\* o: one plain object, wrapped by reactive(o) and by readonly(o)
ObjKeys == {"a", "b", "flag"}
\* m: one Map, wrapped by reactive(m) and by readonly(m)
MapKeys == {"k1", "k2"}
\* arr: one array, wrapped by reactive(arr); its integer keys, by index
IndexKeys == <<"0", "1", "2">>
IndexKey(i) == IndexKeys[i + 1]
KeyIndex(key) == CHOOSE i \in 0..(MaxArr - 1) : IndexKeys[i + 1] = key
\* @vue/shared isIntegerKey
isIntegerKey(key) == \E i \in 1..MaxArr : IndexKeys[i] = key
ITERATE_KEY == "ITERATE_KEY"
MAP_KEY_ITERATE_KEY == "MAP_KEY_ITERATE_KEY"

\* the effects: two created by effect(fn), and the one inside computed()
UserEffects == {"e1", "e2"}
Effects == UserEffects \cup {"ce"}

\* a dependency cell is named by its slot: <<target, key>>; "r" is the ref
\* (r.dep) and "c" the computed (c.dep)
Targets == {"o", "m", "r", "c", "arr"}
Cells ==
  {<<"o", k>> : k \in ObjKeys \cup {ITERATE_KEY}}
    \cup {<<"m", k>> : k \in MapKeys \cup {ITERATE_KEY, MAP_KEY_ITERATE_KEY}}
    \cup {<<"r", "value">>, <<"c", "value">>}
    \cup {<<"arr", k>> : k \in {"length", "0", "1", "2"}}

\* ----------------------------------------------------------------- helpers
InSeq(x, seq) == \E i \in 1..Len(seq) : seq[i] = x
\* Set.prototype.add / delete on an insertion-ordered Set
SetAdd(seq, x) == IF InSeq(x, seq) THEN seq ELSE Append(seq, x)
SetDelete(seq, x) == SelectSeq(seq, LAMBDA y : y # x)
\* a Set that keeps every occurrence of an element
Dedup_keepAll(seq) == seq

\* new Set(array): the first occurrence of each element, in order
RECURSIVE Dedup(_)
Dedup(seq) ==
  IF seq = <<>> THEN <<>>
  ELSE LET init == Dedup(SubSeq(seq, 1, Len(seq) - 1))
       IN SetAdd(init, seq[Len(seq)])

\* 1 << n on 32-bit integers: the shift count is taken modulo 32 and bit 31
\* is the sign bit
shl1(n) ==
  IF n % 32 = 31 THEN (0 - 2 ^ 30) - 2 ^ 30 ELSE 2 ^ (n % 32)

\* x & bit > 0, x | bit, x & ~bit for a single bit
BitTest(x, bit) == (x \div bit) % 2 = 1
BitSet(x, bit) == IF BitTest(x, bit) THEN x ELSE x + bit
BitClear(x, bit) == IF BitTest(x, bit) THEN x - bit ELSE x


\* ------------------------------------------------------------------- state
VARIABLES
  obj,              \* the raw plain object o: [ObjKeys -> value or Absent]
  map,              \* the raw Map m: [MapKeys -> value or Absent]
  arr,              \* the raw array arr: the sequence of its elements
  refRaw,           \* RefImpl._rawValue of the ref r
  refValue,         \* RefImpl._value of the ref r
  cDirty,           \* ComputedRefImpl._dirty of the computed c
  cValue,           \* ComputedRefImpl._value of the computed c
  depsMap,          \* targetMap: per target the keys that have a Dep, in creation order
  depSubs,          \* per cell the Set of subscribed effects, in insertion order
  depW,             \* Dep.w, the wasTracked bits
  depN,             \* Dep.n, the newTracked bits
  effFn,            \* ReactiveEffect.fn: the name of the effect's function, None before creation
  effActive,        \* ReactiveEffect.active
  effDeps,          \* ReactiveEffect.deps
  effParent,        \* ReactiveEffect.parent
  effScheduler,     \* ReactiveEffect.scheduler: None, "computed" or "job"
  effAllowRecurse,  \* ReactiveEffect.allowRecurse
  effOnStop,        \* ReactiveEffect.onStop: None, or the name of the hook
  activeEffect,     \* effect.ts activeEffect
  shouldTrack,      \* effect.ts shouldTrack
  trackStack,       \* effect.ts trackStack
  effectTrackDepth, \* effect.ts effectTrackDepth
  trackOpBit,       \* effect.ts trackOpBit
  seen,             \* per effect function the outer variable it assigns what it reads
  ret,              \* the value returned by the last call
  exc,              \* an exception is propagating
  overflow,         \* the nesting bound MaxDepth was exceeded
  op,               \* observation: the public operation performed last
  arg,              \* observation: the value passed to that operation
  triggered,        \* observation: the trigger() / triggerRefValue() calls of the last operation
  cRead,            \* observation: c.value has been read
  getterRan,        \* observation: the getter of c has been invoked
  changedSinceRead, \* observation: a slot the getter read changed after the last read of c.value
  cacheMiss,        \* observation: the last operation read c.value twice with no change between and the second read invoked the getter
  calls,            \* observation: per effect, invocations of its fn by the last operation
  schedCalls,       \* observation: per effect, invocations of its scheduler by the last operation
  fnDepth,          \* observation: per effect, invocations of its fn now on the call stack
  reentered,        \* observation: a fn was entered by the last operation while already running
  inactiveMoved,    \* observation: in the last operation a run() of a stopped effect returned with activeEffect or the tracking depth other than at its entry
  invoked,          \* observation: the effects that the triggerEffects loops of the last operation ran or handed to their scheduler, in order
  invokedStopped,   \* observation: those of them whose active was false when the loop came to them
  guardSkips,       \* observation: run() calls of the last operation that returned at the parent-chain guard
  cNotified,        \* observation: triggerRefValue(c) calls since the last read of c.value
  staleRead,        \* observation: in the last operation a read of c.value returned a cached value other than what the getter yields now
  restoreFailed,    \* observation: in the last operation a run() whose fn threw returned with tracking state other than at its entry
  onStopCalls,      \* observation: per effect, invocations of its onStop hook so far
  curReads,         \* observation: cells tracked so far by the effect's run in progress
  lastReads,        \* observation: cells tracked by the effect's last completed run
  sched             \* scheduler.ts: queue, flushIndex, isFlushing, isFlushPending, the pre and post callback queues, currentPreFlushParentJob; dev: __DEV__; seen, nestedSeen: the CountMap of flushJobs and of a flushPreFlushCbs a job called, 0 for no entry; pc, where the flush stands; observations: enqueues, the calls counted by Enqueue; runs, per job and callback its executions since the flushJobs microtask started, counted when dev; warned, a warning of checkRecursiveUpdates since then; watcher: the watcher doWatch created, with the observations sourceAfterStop and cbAfterStop, an invocation of its source or its callback after its stop handle returned

reactivityVars ==
  <<obj, map, arr, refRaw, refValue, cDirty, cValue, depsMap, depSubs, depW, depN,
    effFn, effActive, effDeps, effParent, effScheduler, effAllowRecurse,
    effOnStop, onStopCalls, restoreFailed, staleRead, cNotified,
    inactiveMoved, guardSkips, invoked, invokedStopped, activeEffect, shouldTrack, trackStack, effectTrackDepth, trackOpBit,
    seen, ret, exc, overflow, op, arg, triggered, cRead, getterRan,
    changedSinceRead, cacheMiss, calls, schedCalls, fnDepth, reentered,
    curReads, lastReads>>

vars == <<reactivityVars, sched>>

\* the program state as one value, passed through the calls of an operation
St ==
  [obj |-> obj, map |-> map, arr |-> arr, refRaw |-> refRaw, refValue |-> refValue,
   cDirty |-> cDirty, cValue |-> cValue, depsMap |-> depsMap,
   depSubs |-> depSubs, depW |-> depW, depN |-> depN, effFn |-> effFn,
   effActive |-> effActive, effDeps |-> effDeps, effParent |-> effParent,
   effScheduler |-> effScheduler, effAllowRecurse |-> effAllowRecurse,
   effOnStop |-> effOnStop, onStopCalls |-> onStopCalls,
   restoreFailed |-> restoreFailed, staleRead |-> staleRead,
   cNotified |-> cNotified, inactiveMoved |-> inactiveMoved,
   guardSkips |-> guardSkips, invoked |-> invoked, invokedStopped |-> invokedStopped,
   activeEffect |-> activeEffect, shouldTrack |-> shouldTrack,
   trackStack |-> trackStack, effectTrackDepth |-> effectTrackDepth,
   trackOpBit |-> trackOpBit, seen |-> seen, ret |-> ret, exc |-> exc,
   overflow |-> overflow, op |-> op, arg |-> arg, triggered |-> triggered,
   cRead |-> cRead, getterRan |-> getterRan,
   changedSinceRead |-> changedSinceRead, cacheMiss |-> cacheMiss,
   calls |-> calls,
   schedCalls |-> schedCalls, fnDepth |-> fnDepth, reentered |-> reentered,
   curReads |-> curReads, lastReads |-> lastReads]

\* the state an operation ends in becomes the next state
Commit(s) ==
  /\ obj' = s.obj /\ map' = s.map /\ arr' = s.arr
  /\ restoreFailed' = s.restoreFailed /\ staleRead' = s.staleRead
  /\ cNotified' = s.cNotified /\ inactiveMoved' = s.inactiveMoved
  /\ guardSkips' = s.guardSkips /\ invoked' = s.invoked
  /\ invokedStopped' = s.invokedStopped
  /\ refRaw' = s.refRaw /\ refValue' = s.refValue
  /\ cDirty' = s.cDirty /\ cValue' = s.cValue
  /\ depsMap' = s.depsMap /\ depSubs' = s.depSubs
  /\ depW' = s.depW /\ depN' = s.depN
  /\ effFn' = s.effFn /\ effActive' = s.effActive
  /\ effDeps' = s.effDeps /\ effParent' = s.effParent
  /\ effScheduler' = s.effScheduler /\ effAllowRecurse' = s.effAllowRecurse
  /\ effOnStop' = s.effOnStop /\ onStopCalls' = s.onStopCalls
  /\ activeEffect' = s.activeEffect /\ shouldTrack' = s.shouldTrack
  /\ trackStack' = s.trackStack /\ effectTrackDepth' = s.effectTrackDepth
  /\ trackOpBit' = s.trackOpBit
  /\ seen' = s.seen /\ ret' = s.ret /\ exc' = s.exc /\ overflow' = s.overflow
  /\ op' = s.op /\ arg' = s.arg /\ triggered' = s.triggered
  /\ cRead' = s.cRead /\ getterRan' = s.getterRan
  /\ changedSinceRead' = s.changedSinceRead /\ cacheMiss' = s.cacheMiss
  /\ calls' = s.calls /\ schedCalls' = s.schedCalls
  /\ fnDepth' = s.fnDepth /\ reentered' = s.reentered
  /\ curReads' = s.curReads /\ lastReads' = s.lastReads
  /\ UNCHANGED sched

\* a public operation begins: the caller sees no pending exception, and the
\* observations of the previous operation are reset
Begin(s, o, a) ==
  [s EXCEPT !.op = o, !.arg = a, !.exc = FALSE, !.ret = Undefined,
            !.triggered = <<>>, !.cacheMiss = FALSE, !.restoreFailed = FALSE,
            !.staleRead = FALSE, !.inactiveMoved = FALSE, !.guardSkips = 0,
            !.invoked = <<>>, !.invokedStopped = {},
            !.calls = [e \in Effects |-> 0],
            !.schedCalls = [e \in Effects |-> 0],
            !.reentered = FALSE]

\* ------------------------------------------------------------------ dep.ts
\* wasTracked(dep): (dep.w & trackOpBit) > 0
wasTracked(s, cell) == BitTest(s.depW[cell], s.trackOpBit)
\* newTracked(dep): (dep.n & trackOpBit) > 0
newTracked(s, cell) == BitTest(s.depN[cell], s.trackOpBit)

\* initDepMarkers({ deps }): deps[i].w |= trackOpBit for every dep of the effect
RECURSIVE initDepMarkersFrom(_, _, _)
initDepMarkersFrom(s, e, i) ==
  IF i > Len(s.effDeps[e]) THEN s
  ELSE initDepMarkersFrom(
         [s EXCEPT !.depW[s.effDeps[e][i]] = BitSet(@, s.trackOpBit)], e, i + 1)
initDepMarkers(s, e) == initDepMarkersFrom(s, e, 1)

\* finalizeDepMarkers(effect): every dep of effect.deps that was tracked and is
\* not newly tracked loses the effect and is dropped from deps; the two bits
\* of every dep of effect.deps are cleared
RECURSIVE finalizeDepMarkersFrom(_, _, _, _)
finalizeDepMarkersFrom(s, e, i, kept) ==
  IF i > Len(s.effDeps[e]) THEN [s EXCEPT !.effDeps[e] = kept]
  ELSE LET dep == s.effDeps[e][i]
           drop == wasTracked(s, dep) /\ ~newTracked(s, dep)
           s1 == IF drop THEN [s EXCEPT !.depSubs[dep] = SetDelete(@, e)] ELSE s
           s2 == [s1 EXCEPT !.depW[dep] = BitClear(@, s.trackOpBit),
                            !.depN[dep] = BitClear(@, s.trackOpBit)]
       IN finalizeDepMarkersFrom(s2, e, i + 1,
                                 IF drop THEN kept ELSE Append(kept, dep))
finalizeDepMarkers(s, e) ==
  IF Len(s.effDeps[e]) > 0 THEN finalizeDepMarkersFrom(s, e, 1, <<>>) ELSE s

\* --------------------------------------------------------------- effect.ts
\* cleanupEffect(effect): delete the effect from each of its deps, empty deps
RECURSIVE cleanupEffectFrom(_, _, _)
cleanupEffectFrom(s, e, i) ==
  IF i > Len(s.effDeps[e]) THEN [s EXCEPT !.effDeps[e] = <<>>]
  ELSE cleanupEffectFrom(
         [s EXCEPT !.depSubs[s.effDeps[e][i]] = SetDelete(@, e)], e, i + 1)
cleanupEffect(s, e) ==
  IF Len(s.effDeps[e]) > 0 THEN cleanupEffectFrom(s, e, 1) ELSE s

RECURSIVE stop(_, _, _)
\* this.onStop(): the hook "count" only records that it ran, the hook
\* "restop" calls stop(runner) of its own effect
onStop(s, e, d) ==
  LET s1 == [s EXCEPT !.onStopCalls[e] = @ + 1]
  IN IF s.effOnStop[e] = "restop"
     THEN (IF d > MaxDepth THEN [s1 EXCEPT !.overflow = TRUE]
           ELSE stop(s1, e, d + 1))
     ELSE s1

\* ReactiveEffect.stop(), after cleanupEffect(this): the hook, then
\* this.active = false unless the hook threw
stopAfterCleanup(s1, e, d) ==
  IF s1.exc \/ s1.overflow THEN s1 ELSE [s1 EXCEPT !.effActive[e] = FALSE]

\* ReactiveEffect.stop()
stop(s, e, d) ==
  IF s.effActive[e]
  THEN stopAfterCleanup(
         IF s.effOnStop[e] # None THEN onStop(cleanupEffect(s, e), e, d)
         ELSE cleanupEffect(s, e),
         e, d)
  ELSE s

\* a resetTracking that pops the stack and leaves the flag as it is
resetTracking_keepFlag(s) ==
  [s EXCEPT !.trackStack = IF @ = <<>> THEN @ ELSE SubSeq(@, 1, Len(@) - 1)]

\* pauseTracking / enableTracking / resetTracking
pauseTracking(s) ==
  [s EXCEPT !.trackStack = Append(@, s.shouldTrack), !.shouldTrack = FALSE]
enableTracking(s) ==
  [s EXCEPT !.trackStack = Append(@, s.shouldTrack), !.shouldTrack = TRUE]
resetTracking(s) ==
  IF s.trackStack = <<>> THEN [s EXCEPT !.shouldTrack = TRUE]
  ELSE [s EXCEPT !.shouldTrack = s.trackStack[Len(s.trackStack)],
                 !.trackStack = SubSeq(@, 1, Len(@) - 1)]

\* a trackEffects that registers the active effect at every read
trackEffects_everyRead(s, dep) ==
  [s EXCEPT !.depSubs[dep] = SetAdd(@, s.activeEffect),
            !.effDeps[s.activeEffect] = Append(@, dep)]

\* the calls `seq` of pauseTracking, enableTracking and resetTracking, one
\* after the other
RECURSIVE trackingCalls(_, _)
trackingCalls(s, seq) ==
  IF seq = <<>> THEN s
  ELSE trackingCalls(CASE seq[1] = "pause" -> pauseTracking(s)
                       [] seq[1] = "enable" -> enableTracking(s)
                       [] OTHER -> resetTracking(s),
                     Tail(seq))

\* trackEffects(dep)
trackEffects(s, dep) ==
  LET marking == s.effectTrackDepth <= maxMarkerBits
      isNew == ~newTracked(s, dep)
      s1 == IF marking /\ isNew
            THEN [s EXCEPT !.depN[dep] = BitSet(@, s.trackOpBit)]
            ELSE s
      doTrack == IF marking
                 THEN isNew /\ ~wasTracked(s, dep)
                 ELSE ~InSeq(s.activeEffect, s.depSubs[dep])
  IN IF doTrack
     THEN [s1 EXCEPT !.depSubs[dep] = SetAdd(@, s.activeEffect),
                     !.effDeps[s.activeEffect] = Append(@, dep)]
     ELSE s1

\* track(target, type, key); the cell is noted in curReads of the effect
\* that the read is attributed to
track(s, target, key) ==
  IF s.shouldTrack /\ s.activeEffect # None
  THEN LET s1 == [s EXCEPT !.depsMap[target] = SetAdd(@, key),
                           !.curReads[s.activeEffect] = @ \cup {<<target, key>>}]
       IN trackEffects(s1, <<target, key>>)
  ELSE s

\* ref.ts trackRefValue(ref): ref.dep || (ref.dep = createDep())
trackRefValue(s, ref) ==
  IF s.shouldTrack /\ s.activeEffect # None
  THEN LET s1 == [s EXCEPT !.depsMap[ref] = SetAdd(@, "value"),
                           !.curReads[s.activeEffect] = @ \cup {<<ref, "value">>}]
       IN trackEffects(s1, <<ref, "value">>)
  ELSE s

\* a parent-chain walk that never finds the effect
onParentChain_never(s, p, e) == FALSE

\* whether effect e is activeEffect or one of its ancestors (the while loop
\* of run() over parent)
RECURSIVE onParentChain(_, _, _)
onParentChain(s, p, e) ==
  IF p = None THEN FALSE
  ELSE IF p = e THEN TRUE
  ELSE onParentChain(s, s.effParent[p], e)

\* ------------------------------------------------- the functions of effects
\* The function of an effect is a list of statements:
\*   <<"get", k>>       seen = o[k]             (through reactive(o))
\*   <<"ifnot", k, n>>  if (!o[k]) skip the next n statements
\*   <<"roget", k>>     seen = ro[k]            (through readonly(o))
\*   <<"set", k, v>>    o[k] = v
\*   <<"setSucc", k>>   o[k] = seen + 1
\*   <<"setSeen", k>>   o[k] = seen
\*   <<"cget">>         seen = c.value
\*   <<"rget">>         seen = r.value
\*   <<"rset", v>>      r.value = v
\*   <<"stop", e>>      e.stop()
\*   <<"msize">>, <<"mkeys">>, <<"mvalues">>, <<"mforEach">>, <<"mget", k>>,
\*   <<"mhas", k>>      seen = m.size, m.keys(), m.values(), m.forEach(..),
\*                      m.get(k), m.has(k)
\*   <<"mset", k, v>>   m.set(k, v)
\*   <<"aget", k>>      seen = arr[k]           (k an index or "length")
\*   <<"apush", v>>     arr.push(v)
\*   <<"apop">>         arr.pop()
\*   <<"aset", k, v>>   arr[k] = v
\*   <<"keys", t>>      seen = Object.keys(t)   (t is "o" or "arr")
\*   <<"pause">>, <<"enable">>, <<"reset">>
\*                      pauseTracking(), enableTracking(), resetTracking()
\*   <<"via", w, m, k>> seen = <read m of key k through the readonly wrapper w>
\*   <<"throwIf">>      if (seen) throw new Error()
\*   <<"run", e>>       the runner of effect e is called
\*   <<"retSucc">>      return seen + 1
Prog(name) ==
  CASE name = "readA" -> << <<"get", "a">> >>
    [] name = "readB" -> << <<"get", "b">> >>
    [] name = "readAA" -> << <<"get", "a">>, <<"get", "a">> >>
    [] name = "readAB" -> << <<"get", "a">>, <<"get", "b">> >>
    [] name = "condA" -> << <<"ifnot", "flag", 1>>, <<"get", "a">> >>
    [] name = "incA" -> << <<"get", "a">>, <<"setSucc", "a">> >>
    [] name = "aToB" -> << <<"get", "a">>, <<"setSeen", "b">> >>
    [] name = "bToA" -> << <<"get", "b">>, <<"setSucc", "a">> >>
    [] name = "readAC" -> << <<"get", "a">>, <<"cget">> >>
    [] name = "readCA" -> << <<"cget">>, <<"get", "a">> >>
    [] name = "readC" -> << <<"cget">> >>
    [] name = "readR" -> << <<"rget">> >>
    [] name = "stopSelf" -> << <<"get", "a">>, <<"stop", "self">>, <<"get", "b">> >>
    [] name = "aStopE2" -> << <<"ifnot", "a", 1>>, <<"stop", "e2">> >>
    [] name = "readARunE2" -> << <<"get", "a">>, <<"run", "e2">> >>
    [] name = "stopInc" -> << <<"stop", "self">>, <<"get", "a">>, <<"setSucc", "a">> >>
    [] name = "mSize" -> << <<"msize">> >>
    [] name = "mKeys" -> << <<"mkeys">> >>
    [] name = "mGet" -> << <<"mget", "k1">> >>
    [] name = "mForEach" -> << <<"mforEach">> >>
    [] name = "mValues" -> << <<"mvalues">> >>
    [] name = "mGet2" -> << <<"mget", "k2">> >>
    [] name = "readRA" -> << <<"rget">>, <<"get", "a">> >>
    [] name = "roRead" -> << <<"roget", "a">> >>
    [] name = "mGetSize" -> << <<"mget", "k1">>, <<"msize">> >>
    [] name = "mAll" -> << <<"mget", "k1">>, <<"msize">>, <<"mkeys">> >>
    [] name = "idxLen" -> << <<"aget", "0">>, <<"aget", "length">> >>
    [] name = "readAThrow" -> << <<"get", "a">>, <<"throwIf">> >>
    [] name = "lenThrow" -> << <<"aget", "length">>, <<"throwIf">> >>
    [] name = "pushOne" -> << <<"apush", Num(1)>> >>
    [] name = "readIdx" -> << <<"aget", "0">> >>
    [] name = "readLen" -> << <<"aget", "length">> >>
    [] name = "pauseReadA" ->
         << <<"pause">>, <<"get", "a">>, <<"reset">>, <<"get", "b">> >>
    [] name = "nestedTrack" ->
         << <<"pause">>, <<"enable">>, <<"get", "a">>, <<"reset">>,
            <<"get", "b">>, <<"reset">> >>
    [] name = "popOne" -> << <<"apop">> >>
    [] name = "pushReadA" -> << <<"apush", Num(1)>>, <<"get", "a">> >>
    [] name = "writeA1" -> << <<"set", "a", Num(1)>> >>
    [] name = "readBRunE2" -> << <<"get", "b">>, <<"run", "e2">> >>
    [] name = "keysO" -> << <<"keys", "o">> >>
    [] name = "keysArr" -> << <<"keys", "arr">> >>
    [] name \in {"readonly", "shallowReadonly", "readonlyOfReactive"} ->
         << <<"via", name, "prop", "a">>, <<"via", name, "get", "k1">>,
            <<"via", name, "has", "k2">>, <<"via", name, "size", None>>,
            <<"via", name, "forEach", None>>, <<"via", name, "keys", None>>,
            <<"via", name, "values", None>> >>
    [] name = "getter" -> << <<"get", "a">>, <<"retSucc">> >>
    [] name = "getterThrow" -> << <<"get", "a">>, <<"throwIf">>, <<"retSucc">> >>
    [] OTHER -> <<>>

RECURSIVE run(_, _, _)
RECURSIVE triggerEffectsFrom(_, _, _, _)

\* ------------------------------------------------------ trigger, effect.ts
isArray(target) == target = "arr"
isMap(target) == target = "m"

\* depsMap.get(key): the cell, or None when the key has no Dep
depOf(s, target, key) ==
  IF InSeq(key, s.depsMap[target]) THEN <<target, key>> ELSE <<None, None>>

\* a triggerEffects that walks the subscribers from the last to the first
triggerEffects_reversed(s, effects, d) ==
  triggerEffectsFrom(
    s, [i \in 1..Len(effects) |-> effects[Len(effects) + 1 - i]], 1, d)

\* a loop over the Set itself, which goes on to the subscribers added to it meanwhile
triggerEffects_live(s, effects, d) ==
  IF effects # <<>> /\ \E c \in DOMAIN s.depSubs : s.depSubs[c] = effects
  THEN triggerEffectsFrom(
         triggerEffectsFrom(s, effects, 1, d),
         SelectSeq(triggerEffectsFrom(s, effects, 1, d).depSubs[
                     CHOOSE c \in DOMAIN s.depSubs : s.depSubs[c] = effects],
                   LAMBDA e : ~InSeq(e, effects)),
         1, d)
  ELSE triggerEffectsFrom(s, effects, 1, d)

\* triggerEffects(dep): the subscribers are spread into an array first
triggerEffects(s, effects, d) == triggerEffectsFrom(s, effects, 1, d)

\* ref.ts triggerRefValue(ref)
triggerRefValue(s, ref, d) ==
  LET s1 == [s EXCEPT !.triggered = Append(@, <<ref, "set", "value">>),
                      !.cNotified = IF ref = "c" THEN @ + 1 ELSE @]
  IN IF InSeq("value", s.depsMap[ref])
     THEN triggerEffects(s1, s1.depSubs[<<ref, "value">>], d)
     ELSE s1

\* the scheduler of an effect.  computed.ts: the scheduler of the effect of
\* the computed marks it dirty and triggers c.dep.  A "job" scheduler hands
\* the effect to its owner and returns.
callScheduler(s, e, d) ==
  LET s1 == [s EXCEPT !.schedCalls[e] = @ + 1]
  IN IF s.effScheduler[e] = "computed"
     THEN IF ~s1.cDirty
          THEN triggerRefValue([s1 EXCEPT !.cDirty = TRUE], "c", d)
          ELSE s1
     ELSE s1

\* the loop comes to a subscriber it invokes
visit(s, effect) ==
  [s EXCEPT !.invoked = Append(@, effect),
            !.invokedStopped = IF s.effActive[effect] THEN @ ELSE @ \cup {effect}]

\* a loop body with `effect !== activeEffect && effect.allowRecurse`
triggerEffect_andAllowRecurse(s, effect, d) ==
  IF effect # s.activeEffect /\ s.effAllowRecurse[effect]
  THEN IF s.effScheduler[effect] # None
       THEN callScheduler(s, effect, d)
       ELSE run(s, effect, d)
  ELSE s

\* a loop body that runs the effect whether or not it has a scheduler
triggerEffect_noScheduler(s, effect, d) ==
  IF effect # s.activeEffect \/ s.effAllowRecurse[effect]
  THEN run(s, effect, d)
  ELSE s

\* the body of the for loop of triggerEffects, for one subscriber
triggerEffect(s, effect, d) ==
  IF effect # s.activeEffect \/ s.effAllowRecurse[effect]
  THEN IF s.effScheduler[effect] # None
       THEN callScheduler(visit(s, effect), effect, d)
       ELSE run(visit(s, effect), effect, d)
  ELSE s

\* the for loop of triggerEffects, from the j-th subscriber on; an exception
\* thrown by a subscriber ends the loop
triggerEffectsFrom(s, effects, j, d) ==
  IF j > Len(effects) \/ s.exc \/ s.overflow THEN s
  ELSE triggerEffectsFrom(triggerEffect(s, effects[j], d), effects, j + 1, d)

\* the subscribers of the cells, concatenated (effects.push(...dep))
RECURSIVE concatSubs(_, _)
concatSubs(s, deps) ==
  IF deps = <<>> THEN <<>>
  ELSE (IF deps[1][1] = None THEN <<>> ELSE s.depSubs[deps[1]])
         \o concatSubs(s, Tail(deps))

\* a trigger() whose SET case does not add the ITERATE_KEY cell of a Map
triggerDeps_setOwnOnly(s, target, type, key) ==
  LET own == IF key # None THEN <<depOf(s, target, key)>> ELSE <<>>
      iter == <<depOf(s, target, ITERATE_KEY)>>
      mapIter == IF isMap(target)
                 THEN <<depOf(s, target, MAP_KEY_ITERATE_KEY)>> ELSE <<>>
  IN CASE key = "length" /\ isArray(target) ->
            \* every cell of length and of an index >= the new length
            LET ks == SelectSeq(s.depsMap[target],
                                LAMBDA k : k = "length"
                                           \/ KeyIndex(k) >= Len(s.arr))
            IN [i \in 1..Len(ks) |-> <<target, ks[i]>>]
       [] type = "add" ->
            IF ~isArray(target) THEN own \o iter \o mapIter
            ELSE IF isIntegerKey(key)
                 THEN own \o <<depOf(s, target, "length")>>
                 ELSE own
       [] type = "delete" ->
            IF ~isArray(target) THEN own \o iter \o mapIter ELSE own
       [] OTHER -> own

\* the deps array that trigger() collects for SET | ADD | DELETE
triggerDeps(s, target, type, key) ==
  LET own == IF key # None THEN <<depOf(s, target, key)>> ELSE <<>>
      iter == <<depOf(s, target, ITERATE_KEY)>>
      mapIter == IF isMap(target)
                 THEN <<depOf(s, target, MAP_KEY_ITERATE_KEY)>> ELSE <<>>
  IN CASE key = "length" /\ isArray(target) ->
            \* every cell of length and of an index >= the new length
            LET ks == SelectSeq(s.depsMap[target],
                                LAMBDA k : k = "length"
                                           \/ KeyIndex(k) >= Len(s.arr))
            IN [i \in 1..Len(ks) |-> <<target, ks[i]>>]
       [] type = "add" ->
            IF ~isArray(target) THEN own \o iter \o mapIter
            ELSE IF isIntegerKey(key)
                 THEN own \o <<depOf(s, target, "length")>>
                 ELSE own
       [] type = "delete" ->
            IF ~isArray(target) THEN own \o iter \o mapIter ELSE own
       [] type = "set" ->
            IF isMap(target) THEN own \o iter ELSE own
       [] OTHER -> own

\* trigger(target, type, key)
trigger(s0, target, type, key, d) ==
  LET s == [s0 EXCEPT !.triggered = Append(@, <<target, type, key>>)]
  IN IF s.depsMap[target] = <<>> THEN s
     ELSE LET deps == IF type = "clear"
                      THEN [i \in 1..Len(s.depsMap[target]) |->
                              <<target, s.depsMap[target][i]>>]
                      ELSE triggerDeps(s, target, type, key)
              \* one dep: its subscribers, if it exists; several: the
              \* subscribers of all, through createDep(effects)
              effects == IF Len(deps) = 1
                         THEN (IF deps[1][1] # None THEN s.depSubs[deps[1]]
                               ELSE <<>>)
                         ELSE Dedup(concatSubs(s, deps))
          IN triggerEffects(s, effects, d)

\* a setter that triggers SET for every write of an existing key
triggerWrite_alwaysSet(s, target, hadKey, changed, key, d) ==
  trigger(s, target, IF ~hadKey THEN "add" ELSE "set", key, d)

\* the trigger that follows a write of target[key]: ADD for a new key, SET
\* for a changed value, none otherwise
triggerWrite(s, target, hadKey, changed, key, d) ==
  IF ~hadKey \/ changed
  THEN trigger(s, target, IF ~hadKey THEN "add" ELSE "set", key, d)
  ELSE s

\* ------------------------------------------- baseHandlers.ts (plain object)
\* createGetter(isReadonly, shallow): the get trap, for key of o
createGetter(s, readonly, shallow, key) ==
  LET res == ReadVal(s.obj[key])
      s1 == IF ~readonly THEN track(s, "o", key) ELSE s
      out == IF shallow THEN res
             ELSE IF res[1] = "raw"
                  THEN (IF readonly THEN ReadonlyProxy(res[2])
                        ELSE ReactiveProxy(res[2]))
                  ELSE res
  IN [s1 EXCEPT !.ret = out]

\* a set trap that stores and compares the value as it was given
createSetter_asGiven(s, shallow, key, value, d) ==
  LET oldValue == ReadVal(s.obj[key])
      hadKey == s.obj[key] # Absent
      s1 == [s EXCEPT !.obj[key] = value,
                      !.changedSinceRead =
                         @ \/ (s.obj[key] # value
                                 /\ <<"o", key>> \in s.lastReads["ce"])]
  IN [triggerWrite(s1, "o", hadKey, hasChanged(value, oldValue), key, d)
        EXCEPT !.ret = TrueV]

\* createSetter(shallow): the set trap of the mutable handlers.  No ref is
\* stored in o, so neither branch that assigns through an old ref is taken.
createSetter(s, shallow, key, value, d) ==
  LET oldValue0 == ReadVal(s.obj[key])
      unwrap == ~shallow /\ ~isReadonly(value) /\ ~isShallow(value)
      newValue == IF unwrap THEN toRaw(value) ELSE value
      oldValue == IF unwrap THEN toRaw(oldValue0) ELSE oldValue0
      hadKey == s.obj[key] # Absent
      s1 == [s EXCEPT !.obj[key] = newValue,
                      !.changedSinceRead =
                         @ \/ (s.obj[key] # newValue
                                 /\ <<"o", key>> \in s.lastReads["ce"])]
  IN IF isReadonly(oldValue0) /\ isRef(oldValue0) /\ ~isRef(value)
     THEN [s EXCEPT !.ret = FalseV]
     ELSE [triggerWrite(s1, "o", hadKey, hasChanged(newValue, oldValue),
                        key, d)
             EXCEPT !.ret = TrueV]

\* deleteProperty: the deleteProperty trap of the mutable handlers
deleteProperty(s, key, d) ==
  LET hadKey == s.obj[key] # Absent
      s1 == [s EXCEPT !.obj[key] = Absent]
  IN [(IF hadKey THEN trigger(s1, "o", "delete", key, d) ELSE s1)
        EXCEPT !.ret = TrueV]

\* an ownKeys trap that does not track
ownKeys_noTrack(s, target) == [s EXCEPT !.ret = Undefined]

\* ownKeys: the ownKeys trap of the mutable handlers, for o or arr
ownKeys(s, target) ==
  [track(s, target, IF isArray(target) THEN "length" ELSE ITERATE_KEY)
     EXCEPT !.ret = Undefined]

\* a set trap of the readonly handlers that warns and then writes
readonlySet_writes(s, key, value) == createSetter(s, FALSE, key, value, 1)
\* a deleteProperty trap of the readonly handlers that returns false
readonlyDeleteProperty_false(s, key) == [s EXCEPT !.ret = FalseV]

\* readonlyHandlers.set and readonlyHandlers.deleteProperty
readonlySet(s, key, value) == [s EXCEPT !.ret = TrueV]
readonlyDeleteProperty(s, key) == [s EXCEPT !.ret = TrueV]

\* ------------------------------------------- baseHandlers.ts (the array)
\* createGetter(false, false): the get trap, for key "length" or an index
\* of arr
arrayGet(s, key) ==
  LET res == IF key = "length" THEN Num(Len(s.arr))
             ELSE IF KeyIndex(key) < Len(s.arr) THEN s.arr[KeyIndex(key) + 1]
                  ELSE Undefined
  IN [track(s, "arr", key)
        EXCEPT !.ret = IF res[1] = "raw" THEN ReactiveProxy(res[2]) ELSE res]

\* createSetter(false): the set trap, for an index of arr that is at most
\* arr.length (no holes are made); hadKey is Number(key) < target.length
arraySet(s, key, value, d) ==
  LET i == KeyIndex(key)
      hadKey == i < Len(s.arr)
      oldValue0 == IF hadKey THEN s.arr[i + 1] ELSE Undefined
      unwrap == ~isReadonly(value) /\ ~isShallow(value)
      newValue == IF unwrap THEN toRaw(value) ELSE value
      oldValue == IF unwrap THEN toRaw(oldValue0) ELSE oldValue0
      s1 == [s EXCEPT !.arr = IF hadKey THEN [@ EXCEPT ![i + 1] = newValue]
                               ELSE Append(@, newValue)]
  IN IF i > Len(s.arr) THEN [s EXCEPT !.overflow = TRUE]
     ELSE [triggerWrite(s1, "arr", hadKey, hasChanged(newValue, oldValue),
                        key, d)
             EXCEPT !.ret = TrueV]

\* deleteProperty, for the index key of arr: the element becomes a hole
arrayDelete(s, key, d) ==
  LET i == KeyIndex(key)
      hadKey == i < Len(s.arr)
      s1 == IF hadKey THEN [s EXCEPT !.arr[i + 1] = Undefined] ELSE s
  IN [(IF hadKey THEN trigger(s1, "arr", "delete", key, d) ELSE s1)
        EXCEPT !.ret = TrueV]

\* createSetter(false), for the key "length" of arr and a value n that is at
\* most arr.length
arraySetLength(s, n, d) ==
  triggerWrite([s EXCEPT !.arr = SubSeq(@, 1, n)], "arr", TRUE,
               hasChanged(Num(n), Num(Len(s.arr))), "length", d)

\* an instrumented push that does not pause tracking
arrayPush_tracked(s, value, d) ==
  IF Len(s.arr) >= MaxArr THEN [s EXCEPT !.overflow = TRUE]
  ELSE [arraySet(arrayGet(s, "length"), IndexKey(Len(s.arr)), value, d)
          EXCEPT !.ret = Num(Len(s.arr) + 1)]

\* the end of an instrumented push: resetTracking() and return res, which
\* an exception thrown inside the method skips
pushEnd(s) ==
  IF s.exc \/ s.overflow THEN s
  ELSE [resetTracking(s) EXCEPT !.ret = Num(Len(s.arr))]

\* arrayInstrumentations.push(value): pauseTracking(), then
\* Array.prototype.push on the proxy (get length, set [length] = value, set
\* length to the value it already has), then resetTracking()
arrayPush(s, value, d) ==
  IF Len(s.arr) >= MaxArr THEN [s EXCEPT !.overflow = TRUE]
  ELSE pushEnd(arraySet(arrayGet(pauseTracking(s), "length"),
                        IndexKey(Len(s.arr)), value, d))

\* arrayInstrumentations.pop(): pauseTracking(), then Array.prototype.pop on
\* the proxy (get length; if it is not 0, get and delete [length - 1]; set
\* length), then resetTracking()
arrayPop(s, d) ==
  [pushEnd(
     IF Len(s.arr) = 0
     THEN arraySetLength(arrayGet(pauseTracking(s), "length"), 0, d)
     ELSE arraySetLength(
            arrayDelete(
              arrayGet(arrayGet(pauseTracking(s), "length"),
                       IndexKey(Len(s.arr) - 1)),
              IndexKey(Len(s.arr) - 1), d),
            Len(s.arr) - 1, d))
     EXCEPT !.ret = IF Len(s.arr) = 0 THEN Undefined ELSE s.arr[Len(s.arr)]]

\* ------------------------------------ collectionHandlers.ts (the Map m)
\* the proxies of m, returned as `this` by the writing methods
MapProxy == ReactiveProxy(0)
ReadonlyMapProxy == ReadonlyProxy(0)
mapSize(s) == Cardinality({k \in MapKeys : s.map[k] # Absent})

\* get(target, key, isReadonly, isShallow)
get(s, key, readonly, shallow) ==
  LET s1 == IF ~readonly THEN track(s, "m", key) ELSE s
      v == s.map[key]
      wrap == IF shallow THEN v
              ELSE IF v[1] = "raw"
                   THEN (IF readonly THEN ReadonlyProxy(v[2])
                         ELSE ReactiveProxy(v[2]))
                   ELSE v
  IN [s1 EXCEPT !.ret = IF v # Absent THEN wrap ELSE Undefined]

\* a has that tracks whatever the wrapper is
has_tracks(s, key, readonly) ==
  [track(s, "m", key)
     EXCEPT !.ret = IF s.map[key] # Absent THEN TrueV ELSE FalseV]

\* has(key, isReadonly)
has(s, key, readonly) ==
  LET s1 == IF ~readonly THEN track(s, "m", key) ELSE s
  IN [s1 EXCEPT !.ret = IF s.map[key] # Absent THEN TrueV ELSE FalseV]

\* size(target, isReadonly)
size(s, readonly) ==
  LET s1 == IF ~readonly THEN track(s, "m", ITERATE_KEY) ELSE s
  IN [s1 EXCEPT !.ret = Num(mapSize(s))]

\* createForEach(isReadonly, isShallow)
createForEach(s, readonly, shallow) ==
  LET s1 == IF ~readonly THEN track(s, "m", ITERATE_KEY) ELSE s
  IN [s1 EXCEPT !.ret = Undefined]

\* createIterableMethod(method, isReadonly, isShallow): keys, values, entries
createIterableMethod(s, method, readonly, shallow) ==
  LET isKeyOnly == method = "keys" /\ isMap("m")
      s1 == IF ~readonly
            THEN track(s, "m", IF isKeyOnly THEN MAP_KEY_ITERATE_KEY
                               ELSE ITERATE_KEY)
            ELSE s
  IN [s1 EXCEPT !.ret = Undefined]

\* set(key, value) of the mutable instrumentations
set(s, key, value, d) ==
  LET newValue == toRaw(value)
      hadKey == s.map[key] # Absent
      oldValue == ReadVal(s.map[key])
      s1 == [s EXCEPT !.map[key] = newValue]
  IN [triggerWrite(s1, "m", hadKey, hasChanged(newValue, oldValue), key, d)
        EXCEPT !.ret = MapProxy]

\* deleteEntry(key)
deleteEntry(s, key, d) ==
  LET hadKey == s.map[key] # Absent
      s1 == [s EXCEPT !.map[key] = Absent]
  IN [(IF hadKey THEN trigger(s1, "m", "delete", key, d) ELSE s1)
        EXCEPT !.ret = IF hadKey THEN TrueV ELSE FalseV]

\* clear()
clear(s, d) ==
  LET hadItems == mapSize(s) # 0
      s1 == [s EXCEPT !.map = [k \in MapKeys |-> Absent]]
  IN [(IF hadItems THEN trigger(s1, "m", "clear", None, d) ELSE s1)
        EXCEPT !.ret = Undefined]

\* a read through a readonly wrapper.  method "prop" reads o[key]; "get",
\* "has", "size", "forEach", "keys", "values" call that method of the Map.
\* wrapper is "readonly" or "shallowReadonly" for the wrapper of the raw
\* object, and "readonlyOfReactive" for readonly(reactive(raw)): there the
\* readonly handler passes the read on to its target, the reactive wrapper
\* (Reflect.get(target, ..), target.get(key), target.has(key), ...), whose
\* handler runs with isReadonly = false
readHandler(s, method, key, readonly, shallow) ==
  CASE method = "prop" -> createGetter(s, readonly, shallow, key)
    [] method = "get" -> get(s, key, readonly, shallow)
    [] method = "has" -> has(s, key, readonly)
    [] method = "size" -> size(s, readonly)
    [] method = "forEach" -> createForEach(s, readonly, shallow)
    [] OTHER -> createIterableMethod(s, method, readonly, shallow)
readThrough(s, wrapper, method, key) ==
  readHandler(IF wrapper = "readonlyOfReactive"
              THEN readHandler(s, method, key, FALSE, FALSE)
              ELSE s,
              method, key, TRUE, wrapper = "shallowReadonly")

\* createReadonlyMethod(type): add, set, delete, clear of a readonly wrapper
createReadonlyMethod(s, type) ==
  [s EXCEPT !.ret = IF type = "delete" THEN FalseV ELSE ReadonlyMapProxy]

\* ------------------------------------------------------------- computed.ts
\* ComputedRefImpl get value (the computed is cacheable: not SSR)
\* self._value = <the value effect.run() returned>, unless run() threw
computedAssign(s2) ==
  IF s2.exc \/ s2.overflow
  THEN [s2 EXCEPT !.cRead = TRUE, !.changedSinceRead = FALSE]
  ELSE [s2 EXCEPT !.cValue = s2.ret,
                  !.cRead = TRUE, !.changedSinceRead = FALSE]

\* what the getter () => o.a + 1 returns in state s
getterValue(s) == Succ(ReadVal(s.obj["a"]))

\* the body of get value after trackRefValue(self)
computedGetTracked(s1, d) ==
  IF s1.cDirty
  THEN computedAssign(
         run([s1 EXCEPT !.cDirty = FALSE,
                        !.cacheMiss = @ \/ (s1.cRead /\ ~s1.changedSinceRead)],
             "ce", d))
  ELSE [s1 EXCEPT !.ret = s1.cValue,
                  !.staleRead = @ \/ s1.cValue # getterValue(s1),
                  !.cRead = TRUE, !.changedSinceRead = FALSE]

computedGet(s, d) ==
  computedGetTracked(trackRefValue([s EXCEPT !.cNotified = 0], "c"), d)

\* ------------------------------------------------------------------ ref.ts
\* r = ref(..): createRef(value, false)
refIsShallow == FALSE

\* RefImpl get value
refGet(s) == [trackRefValue(s, "r") EXCEPT !.ret = s.refValue]

\* a setter that compares the new value as given, not its raw form
refSet_noToRaw(s, value, d) ==
  LET newVal == IF refIsShallow THEN value ELSE toRaw(value)
      s1 == [s EXCEPT !.refRaw = newVal,
                      !.refValue = IF refIsShallow THEN newVal
                                   ELSE toReactive(newVal)]
  IN IF hasChanged(value, s.refRaw)
     THEN triggerRefValue(s1, "r", d)
     ELSE s

\* RefImpl set value
refSet(s, value, d) ==
  LET newVal == IF refIsShallow THEN value ELSE toRaw(value)
      s1 == [s EXCEPT !.refRaw = newVal,
                      !.refValue = IF refIsShallow THEN newVal
                                   ELSE toReactive(newVal)]
  IN IF hasChanged(newVal, s.refRaw)
     THEN triggerRefValue(s1, "r", d)
     ELSE s

\* ------------------------------------------------ running an effect's fn
\* the statements of fn of effect e, from the i-th on; an exception thrown
\* by a statement ends the function
RECURSIVE exec(_, _, _, _)
exec(s, e, i, d) ==
  IF s.exc \/ s.overflow THEN s
  ELSE IF i > Len(Prog(s.effFn[e])) THEN [s EXCEPT !.ret = Undefined]
  ELSE
    LET ins == Prog(s.effFn[e])[i]
        kind == ins[1]
        \* seen = <the value the call returned>
        assign(t) == IF t.exc \/ t.overflow THEN t
                     ELSE [t EXCEPT !.seen[e] = t.ret]
    IN CASE kind = "get" ->
              exec(assign(createGetter(s, FALSE, FALSE, ins[2])), e, i + 1, d)
         [] kind = "roget" ->
              exec(assign(createGetter(s, TRUE, FALSE, ins[2])), e, i + 1, d)
         [] kind = "ifnot" ->
              LET t == createGetter(s, FALSE, FALSE, ins[2])
              IN exec(t, e, IF Truthy(t.ret) THEN i + 1 ELSE i + 1 + ins[3], d)
         [] kind \in {"set", "setSucc", "setSeen"} ->
              exec(createSetter(s, FALSE, ins[2],
                                CASE kind = "set" -> ins[3]
                                  [] kind = "setSucc" -> Succ(s.seen[e])
                                  [] OTHER -> s.seen[e],
                                d),
                   e, i + 1, d)
         [] kind = "cget" -> exec(assign(computedGet(s, d)), e, i + 1, d)
         [] kind = "rget" -> exec(assign(refGet(s)), e, i + 1, d)
         [] kind = "rset" -> exec(refSet(s, ins[2], d), e, i + 1, d)
         [] kind = "stop" ->
              exec(stop(s, IF ins[2] = "self" THEN e ELSE ins[2], d), e, i + 1, d)
         [] kind = "msize" -> exec(assign(size(s, FALSE)), e, i + 1, d)
         [] kind = "mkeys" ->
              exec(assign(createIterableMethod(s, "keys", FALSE, FALSE)),
                   e, i + 1, d)
         [] kind = "mvalues" ->
              exec(assign(createIterableMethod(s, "values", FALSE, FALSE)),
                   e, i + 1, d)
         [] kind = "mforEach" ->
              exec(assign(createForEach(s, FALSE, FALSE)), e, i + 1, d)
         [] kind = "mget" -> exec(assign(get(s, ins[2], FALSE, FALSE)), e, i + 1, d)
         [] kind = "mhas" -> exec(assign(has(s, ins[2], FALSE)), e, i + 1, d)
         [] kind = "mset" -> exec(set(s, ins[2], ins[3], d), e, i + 1, d)
         [] kind = "aget" -> exec(assign(arrayGet(s, ins[2])), e, i + 1, d)
         [] kind = "apush" -> exec(arrayPush(s, ins[2], d), e, i + 1, d)
         [] kind = "apop" -> exec(arrayPop(s, d), e, i + 1, d)
         [] kind = "aset" -> exec(arraySet(s, ins[2], ins[3], d), e, i + 1, d)
         [] kind = "keys" -> exec(assign(ownKeys(s, ins[2])), e, i + 1, d)
         [] kind \in {"pause", "enable", "reset"} ->
              exec(trackingCalls(s, <<kind>>), e, i + 1, d)
         [] kind = "via" ->
              exec(assign(readThrough(s, ins[2], ins[3], ins[4])), e, i + 1, d)
         [] kind = "throwIf" ->
              IF Truthy(s.seen[e]) THEN [s EXCEPT !.exc = TRUE]
              ELSE exec(s, e, i + 1, d)
         [] kind = "run" -> exec(run(s, ins[2], d), e, i + 1, d)
         [] kind = "retSucc" -> [s EXCEPT !.ret = Succ(s.seen[e])]
         [] OTHER -> s

\* this.fn(): one invocation of the function of effect e
callFn(s, e, d) ==
  LET s0 == [s EXCEPT !.calls[e] = @ + 1,
                      !.getterRan = @ \/ e = "ce",
                      !.reentered = @ \/ s.fnDepth[e] > 0,
                      !.fnDepth[e] = @ + 1]
  IN [exec(s0, e, 1, d) EXCEPT !.fnDepth[e] = @ - 1]

\* a try block that never cleans up: past maxMarkerBits it leaves the
\* subscriptions of the last run in place
runTry_noCleanup(s, e) ==
  LET s1 == [s EXCEPT !.effParent[e] = s.activeEffect,
                      !.activeEffect = e,
                      !.shouldTrack = TRUE,
                      !.effectTrackDepth = @ + 1,
                      !.trackOpBit = shl1(s.effectTrackDepth + 1),
                      !.curReads[e] = {}]
  IN IF s1.effectTrackDepth <= maxMarkerBits
     THEN initDepMarkers(s1, e)
     ELSE s1

\* ReactiveEffect.run(), the try block up to the call of this.fn()
runTry(s, e) ==
  LET s1 == [s EXCEPT !.effParent[e] = s.activeEffect,
                      !.activeEffect = e,
                      !.shouldTrack = TRUE,
                      !.effectTrackDepth = @ + 1,
                      !.trackOpBit = shl1(s.effectTrackDepth + 1),
                      !.curReads[e] = {}]
  IN IF s1.effectTrackDepth <= maxMarkerBits
     THEN initDepMarkers(s1, e)
     ELSE cleanupEffect(s1, e)

\* ReactiveEffect.run(), the finally block; s3 is the state fn() ended in
runFinally(s3, e, lastShouldTrack) ==
  LET s4 == IF s3.effectTrackDepth <= maxMarkerBits
            THEN finalizeDepMarkers(s3, e)
            ELSE s3
  IN [s4 EXCEPT !.effectTrackDepth = @ - 1,
                !.trackOpBit = shl1(s4.effectTrackDepth - 1),
                !.activeEffect = s4.effParent[e],
                !.shouldTrack = lastShouldTrack,
                !.effParent[e] = None,
                !.lastReads[e] = s4.curReads[e],
                !.curReads[e] = {}]

\* run() returns to its caller in state t; s is the state it was called in
runExit(t, s) ==
  IF t.exc /\ ~t.overflow
       /\ <<t.activeEffect, t.shouldTrack, Len(t.trackStack),
            t.effectTrackDepth, t.trackOpBit>>
          # <<s.activeEffect, s.shouldTrack, Len(s.trackStack),
              s.effectTrackDepth, s.trackOpBit>>
  THEN [t EXCEPT !.restoreFailed = TRUE]
  ELSE t

\* run() of a stopped effect returns to its caller in state t; s is the
\* state it was called in
inactiveExit(t, s) ==
  IF ~t.overflow
       /\ <<t.activeEffect, t.effectTrackDepth, t.trackOpBit>>
          # <<s.activeEffect, s.effectTrackDepth, s.trackOpBit>>
  THEN [t EXCEPT !.inactiveMoved = TRUE]
  ELSE t

\* a run() without the `if (!this.active) return this.fn()` branch
run_noInactiveBranch(s, e, d) ==
  IF d > MaxDepth THEN [s EXCEPT !.overflow = TRUE]
  ELSE IF onParentChain(s, s.activeEffect, e) THEN [s EXCEPT !.ret = Undefined]
  ELSE runExit(runFinally(callFn(runTry(s, e), e, d + 1), e, s.shouldTrack), s)

\* ReactiveEffect.run()
run(s, e, d) ==
  IF d > MaxDepth THEN [s EXCEPT !.overflow = TRUE]
  ELSE IF ~s.effActive[e]
       THEN inactiveExit(runExit(callFn(s, e, d + 1), s), s)
  ELSE IF onParentChain(s, s.activeEffect, e)
       THEN [s EXCEPT !.ret = Undefined, !.guardSkips = @ + 1]
  ELSE
    \* try { ...; return this.fn() } finally { ... }
    runExit(runFinally(callFn(runTry(s, e), e, d + 1), e, s.shouldTrack), s)

\* the state after runner() of effect e has been called from inside
\* maxMarkerBits nested effect functions that do nothing else, and these
\* have returned: e runs at recursion depth maxMarkerBits + 1
leaveDeep(t) ==
  IF t.overflow THEN t
  ELSE [t EXCEPT !.effectTrackDepth = @ - maxMarkerBits,
                 !.trackOpBit = shl1(t.effectTrackDepth - maxMarkerBits)]
runDeep(s, e, d) ==
  leaveDeep(run([s EXCEPT !.effectTrackDepth = @ + maxMarkerBits,
                          !.trackOpBit = shl1(s.effectTrackDepth + maxMarkerBits)],
                e, d))

\* ------------------------------------------------------------ initial state
\* const raw = { a: 1, b: 0, flag: true }, o = reactive(raw), ro = readonly(raw),
\* m = reactive(new Map()), arr = reactive([]), r = ref(0); no effect and no computed exists yet;
\* the scheduler of the production build (__DEV__ false) is idle with empty queues
SchedulerJobs == {"j1", "j2", "j3", "cb", "watchJob", "watchEffectJob", "effectRun"}
\* no watcher exists yet
watcherInit ==
  [created |-> FALSE, flush |-> "pre", cb |-> FALSE, active |-> FALSE, deps |-> FALSE,
   stopped |-> FALSE, sourceAfterStop |-> FALSE, cbAfterStop |-> FALSE]
schedInit(dev) ==
  [queue |-> <<>>, flushIndex |-> 0, isFlushing |-> FALSE, isFlushPending |-> FALSE,
   pendingPreFlushCbs |-> <<>>, activePreFlushCbs |-> <<>>, preFlushIndex |-> 0,
   pendingPostFlushCbs |-> <<>>, activePostFlushCbs |-> <<>>, postFlushIndex |-> 0,
   currentPreFlushParentJob |-> None, pc |-> "idle", enqueues |-> 0,
   dev |-> dev,
   seen |-> [fn \in SchedulerJobs |-> 0], nestedSeen |-> [fn \in SchedulerJobs |-> 0],
   runs |-> [fn \in SchedulerJobs |-> 0], warned |-> FALSE,
   watcher |-> watcherInit]

InitReactivity ==
  /\ obj = [k \in ObjKeys |-> CASE k = "a" -> Num(1)
                                [] k = "b" -> Num(0)
                                [] OTHER -> TrueV]
  /\ map = [k \in MapKeys |-> Absent]
  /\ arr = <<>>
  /\ restoreFailed = FALSE /\ staleRead = FALSE /\ cNotified = 0
  /\ inactiveMoved = FALSE /\ guardSkips = 0 /\ invoked = <<>> /\ invokedStopped = {}
  /\ refRaw = Num(0) /\ refValue = Num(0)
  /\ cDirty = TRUE /\ cValue = Undefined
  /\ depsMap = [t \in Targets |-> <<>>]
  /\ depSubs = [c \in Cells |-> <<>>]
  /\ depW = [c \in Cells |-> 0]
  /\ depN = [c \in Cells |-> 0]
  /\ effFn = [e \in Effects |-> None]
  /\ effActive = [e \in Effects |-> TRUE]
  /\ effDeps = [e \in Effects |-> <<>>]
  /\ effParent = [e \in Effects |-> None]
  /\ effScheduler = [e \in Effects |-> None]
  /\ effAllowRecurse = [e \in Effects |-> FALSE]
  /\ effOnStop = [e \in Effects |-> None]
  /\ onStopCalls = [e \in Effects |-> 0]
  /\ activeEffect = None
  /\ shouldTrack = TRUE
  /\ trackStack = <<>>
  /\ effectTrackDepth = 0
  /\ trackOpBit = 1
  /\ seen = [e \in Effects |-> Undefined]
  /\ ret = Undefined
  /\ exc = FALSE
  /\ overflow = FALSE
  /\ op = <<"init", None>>
  /\ arg = Undefined
  /\ triggered = <<>>
  /\ cRead = FALSE /\ getterRan = FALSE
  /\ changedSinceRead = FALSE /\ cacheMiss = FALSE
  /\ calls = [e \in Effects |-> 0]
  /\ schedCalls = [e \in Effects |-> 0]
  /\ fnDepth = [e \in Effects |-> 0]
  /\ reentered = FALSE
  /\ curReads = [e \in Effects |-> {}]
  /\ lastReads = [e \in Effects |-> {}]

Init == InitReactivity /\ sched = schedInit(FALSE)

\* --------------------------------------------------------- public operations
\* effect(fn): new ReactiveEffect(fn), then _effect.run() (not lazy)
effect(s, e, fn, d) == run([s EXCEPT !.effFn[e] = fn], e, d)

\* effect(fn, options): extend(_effect, options), then _effect.run()
effectWith(s, e, fn, options, d) ==
  run([s EXCEPT !.effFn[e] = fn,
                !.effScheduler[e] = options.scheduler,
                !.effAllowRecurse[e] = options.allowRecurse,
                !.effOnStop[e] = options.onStop], e, d)

\* a constructor that evaluates the getter at once
ComputedRefImpl_eager(s) ==
  LET s1 == [s EXCEPT !.effFn["ce"] = "getter", !.effScheduler["ce"] = "computed",
                      !.effActive["ce"] = TRUE, !.cDirty = FALSE]
      s2 == run(s1, "ce", 1)
  IN [s2 EXCEPT !.cValue = s2.ret]

\* computed(getter): the constructor of ComputedRefImpl creates the effect
\* with its scheduler and does not run it
ComputedRefImpl(s) ==
  [s EXCEPT !.effFn["ce"] = "getter", !.effScheduler["ce"] = "computed",
            !.effActive["ce"] = TRUE, !.cDirty = TRUE]

\* the functions that read c.value can only be written once c exists
UsesComputed(fn) == \E i \in 1..Len(Prog(fn)) : Prog(fn)[i][1] = "cget"
\* the functions that call the runner of e2 can only be written once it exists
UsesRunner(fn) == \E i \in 1..Len(Prog(fn)) : Prog(fn)[i][1] = "run"

\* e = effect(fn) for one of the functions in `fns`
Effect(e, fns) ==
  \E fn \in fns :
    /\ ~overflow /\ effFn[e] = None
    /\ UsesComputed(fn) => effFn["ce"] # None
    /\ UsesRunner(fn) => effFn["e2"] # None
    /\ Commit(effect(Begin(St, <<"effect", e>>, Undefined), e, fn, 1))

\* e = effect(fn, options)
EffectWith(e, fns, opts) ==
  \E fn \in fns, options \in opts :
    /\ ~overflow /\ effFn[e] = None
    /\ UsesComputed(fn) => effFn["ce"] # None
    /\ UsesRunner(fn) => effFn["e2"] # None
    /\ Commit(effectWith(Begin(St, <<"effect", e>>, Undefined), e, fn, options, 1))

\* runner(): effect.run() called by the user
Runner ==
  \E e \in UserEffects :
    /\ ~overflow /\ effFn[e] # None
    /\ Commit(run(Begin(St, <<"run", e>>, Undefined), e, 1))

\* runner() called by the user inside maxMarkerBits nested effects
RunDeep ==
  \E e \in UserEffects :
    /\ ~overflow /\ effFn[e] # None
    /\ Commit(runDeep(Begin(St, <<"runDeep", e>>, Undefined), e, 1))

\* stop(runner): effect.stop() called by the user
Stop ==
  \E e \in UserEffects :
    /\ ~overflow /\ effFn[e] # None
    /\ Commit(stop(Begin(St, <<"stop", e>>, Undefined), e, 1))

\* o[k] = v through reactive(o)
SetProp(keys, vals) ==
  \E k \in keys, v \in vals :
    /\ ~overflow
    /\ Commit(createSetter(Begin(St, <<"set", k>>, v), FALSE, k, v, 1))

\* seen = o[k] through reactive(o), from outside of any effect
GetProp(keys) ==
  \E k \in keys :
    /\ ~overflow
    /\ Commit(createGetter(Begin(St, <<"get", k>>, Undefined), FALSE, FALSE, k))

\* the sequences of at most MaxCalls tracking calls in which every
\* pauseTracking and enableTracking is closed by its own resetTracking
Nested ==
  {seq \in UNION {[1..n -> {"pause", "enable", "reset"}] : n \in 1..MaxCalls} :
     /\ \A i \in 1..Len(seq) :
          2 * Cardinality({j \in 1..i : seq[j] = "reset"}) <= i
     /\ 2 * Cardinality({j \in 1..Len(seq) : seq[j] = "reset"}) = Len(seq)}

\* tracking calls made from outside of any effect: one call, or a nested
\* sequence of calls
Tracking ==
  \E seq \in {<<"pause">>, <<"enable">>, <<"reset">>} \cup Nested :
    /\ ~overflow
    /\ seq \in {<<"pause">>, <<"enable">>} => Len(trackStack) < MaxTrack
    /\ Commit(trackingCalls(Begin(St, <<"tracking", seq>>, Undefined), seq))

\* c = computed(() => o.a + 1)
Computed ==
  /\ ~overflow /\ effFn["ce"] = None
  /\ Commit(ComputedRefImpl(Begin(St, <<"computed", "c">>, Undefined)))

\* c = computed(getter) for one of the getters in `getters`
ComputedOf(getters) ==
  \E g \in getters :
    /\ ~overflow /\ effFn["ce"] = None
    /\ Commit([ComputedRefImpl(Begin(St, <<"computed", "c">>, Undefined))
                 EXCEPT !.effFn["ce"] = g])

\* c.value read outside of any effect
ReadComputed ==
  /\ ~overflow /\ effFn["ce"] # None
  /\ Commit(computedGet(Begin(St, <<"cget", "c">>, Undefined), 1))

\* delete o[k] through reactive(o)
DeleteProp(keys) ==
  \E k \in keys :
    /\ ~overflow
    /\ Commit(deleteProperty(Begin(St, <<"delete", k>>, Undefined), k, 1))

\* ro[k] = v and delete ro[k] through readonly(o) or shallowReadonly(o), whose
\* handlers share the set and deleteProperty traps
ReadonlySet(keys, vals) ==
  \E k \in keys, v \in vals, wrapper \in {"readonly", "shallowReadonly"} :
    /\ ~overflow
    /\ Commit(readonlySet(Begin(St, <<"roset", wrapper>>, v), k, v))

ReadonlyDelete(keys) ==
  \E k \in keys, wrapper \in {"readonly", "shallowReadonly"} :
    /\ ~overflow
    /\ Commit(readonlyDeleteProperty(Begin(St, <<"rodelete", wrapper>>, Undefined), k))

\* m.set(k, v), m.delete(k), m.clear() through reactive(m)
MapSet(vals) ==
  \E k \in MapKeys, v \in vals :
    /\ ~overflow
    /\ Commit(set(Begin(St, <<"mset", k>>, v), k, v, 1))

MapDelete ==
  \E k \in MapKeys :
    /\ ~overflow
    /\ Commit(deleteEntry(Begin(St, <<"mdelete", k>>, Undefined), k, 1))

MapClear ==
  /\ ~overflow
  /\ Commit(clear(Begin(St, <<"mclear", None>>, Undefined), 1))

\* rm.add(v), rm.set(k, v), rm.delete(k), rm.clear() through readonly(m)
ReadonlyMapMethod ==
  \E type \in {"add", "set", "delete", "clear"} :
    /\ ~overflow
    /\ Commit(createReadonlyMethod(Begin(St, <<"romethod", type>>, Undefined), type))

\* arr.push(v) and arr[k] = v through reactive(arr), from outside of any effect
ArrayPush(vals) ==
  \E v \in vals :
    /\ ~overflow /\ Len(arr) < MaxArr
    /\ Commit(arrayPush(Begin(St, <<"apush", None>>, v), v, 1))

ArrayPop ==
  /\ ~overflow
  /\ Commit(arrayPop(Begin(St, <<"apop", None>>, Undefined), 1))

ArraySet(vals) ==
  \E i \in 0..(MaxArr - 1), v \in vals :
    /\ ~overflow /\ i <= Len(arr)
    /\ Commit(arraySet(Begin(St, <<"aset", IndexKey(i)>>, v), IndexKey(i), v, 1))

\* r.value = v
RefWrite(vals) ==
  \E v \in vals :
    /\ ~overflow
    /\ Commit(refSet(Begin(St, <<"rset", "r">>, v), v, 1))

\* ------------------------------------------------------- the specifications
Fns1 == {"readA", "condA", "incA", "aToB", "readAC", "readCA"}
Fns2 == {"bToA", "stopSelf", "stopInc"}

Next ==
  \/ Effect("e1", Fns1)
  \/ Effect("e2", Fns2)
  \/ Runner
  \/ Stop
  \/ SetProp({"a"}, Nums)
  \/ SetProp({"flag"}, {TrueV, FalseV})
  \/ Computed
  \/ ReadComputed

Spec == Init /\ [][Next]_vars

\* the ref r and the effects that read it
RefVals == Nums \cup {NaN, RawObj(1), ReactiveProxy(1)}
NextRef ==
  \/ Effect("e1", {"readR"})
  \/ Effect("e2", {"readRA"})
  \/ Stop
  \/ RefWrite(RefVals)
  \/ SetProp({"a"}, Nums)

SpecRef == Init /\ [][NextRef]_vars

\* the Map m and the effects that read it
NextMap ==
  \/ Effect("e1", {"mSize", "mKeys", "mValues", "mForEach"})
  \/ Effect("e2", {"mGet", "mGet2", "mKeys"})
  \/ MapSet(Nums)
  \/ MapDelete
  \/ MapClear

SpecMap == Init /\ [][NextMap]_vars

\* the readonly wrappers of o and of m, next to the mutable ones
NextReadonly ==
  \/ Effect("e1", {"readA", "roRead"})
  \/ Effect("e2", {"mSize", "mGet"})
  \/ SetProp({"a"}, Nums)
  \/ DeleteProp({"a"})
  \/ MapSet({Num(1)})
  \/ ReadonlySet({"a", "b"}, {Num(2), RawObj(1)})
  \/ ReadonlyDelete({"a", "b"})
  \/ ReadonlyMapMethod

SpecReadonly == Init /\ [][NextReadonly]_vars

\* the options of effect(fn, options)
Options(schedulers, recurse, hooks) ==
  [scheduler : schedulers, allowRecurse : recurse, onStop : hooks]

\* effects with an onStop hook, stopped from outside of any effect
NextStop ==
  \/ EffectWith("e1", {"readA", "condA", "readAB"},
                Options({None}, {FALSE}, {None, "count", "restop"}))
  \/ EffectWith("e2", {"readB", "readAB"},
                Options({None}, {FALSE}, {"count"}))
  \/ Runner
  \/ Stop
  \/ SetProp({"a", "b"}, Nums)
  \/ SetProp({"flag"}, {TrueV, FalseV})

SpecStop == Init /\ [][NextStop]_vars

\* effects that read several slots of the Map or of the array, one of them
\* with a scheduler
NextDedup ==
  \/ Effect("e1", {"mGetSize", "mAll", "idxLen"})
  \/ EffectWith("e2", {"mAll", "mKeys", "idxLen"},
                Options({"job"}, {FALSE}, {None}))
  \/ MapSet({Num(1), Num(2)})
  \/ MapDelete
  \/ MapClear
  \/ ArrayPush({Num(1)})
  \/ ArraySet({Num(1), Num(2)})

SpecDedup == Init /\ [][NextDedup]_vars

\* an effect with a scheduler that only records the hand-off, next to an
\* effect without one that writes what the first reads
NextSched ==
  \/ EffectWith("e1", {"readA", "readAB", "incA"},
                Options({"job"}, {FALSE, TRUE}, {None}))
  \/ Effect("e2", {"aToB", "readA"})
  \/ Runner
  \/ Stop
  \/ SetProp({"a", "b"}, Nums)

SpecSched == Init /\ [][NextSched]_vars

\* an effect that is stopped and then run: by the user, and by another
\* effect that calls its runner
NextStopped ==
  \/ Effect("e2", {"readA"})
  \/ Effect("e1", {"readB", "readBRunE2"})
  \/ Runner
  \/ Stop
  \/ SetProp({"a", "b"}, Nums)

SpecStopped == Init /\ [][NextStopped]_vars

\* e1 = effect(() => { if (o.a) stop(e2) }), created when e2 exists
EffectStopper ==
  /\ effFn["e2"] # None
  /\ Effect("e1", {"aStopE2"})

\* an effect that stops another one when it runs; the other one reads the same slot, or
\* reads it while o.flag holds, and has a scheduler or none
NextStopInTrigger ==
  \/ EffectWith("e2", {"readA", "condA"}, Options({None, "job"}, {FALSE}, {None}))
  \/ EffectStopper
  \/ Stop
  \/ SetProp({"a"}, {Num(0), Num(1)})
  \/ SetProp({"flag"}, {TrueV, FalseV})

SpecStopInTrigger == Init /\ [][NextStopInTrigger]_vars

\* an effect that reads o.a while o.flag holds, with a scheduler or none, and an effect
\* that reads o.a and then calls the runner of the first or writes o.a; writes from
\* outside, and runs past the marker depth
NextSnapshot ==
  \/ EffectWith("e2", {"condA", "readA"}, Options({None, "job"}, {FALSE}, {None}))
  \/ Effect("e1", {"readARunE2", "incA"})
  \/ RunDeep
  \/ SetProp({"a"}, {Num(1), Num(2)})
  \/ SetProp({"flag"}, {TrueV, FalseV})

SpecSnapshot == Init /\ [][NextSnapshot]_vars

\* an effect without scheduler that writes the slot it reads, with and
\* without allowRecurse
NextRecurse ==
  \/ EffectWith("e1", {"incA"}, Options({None}, {FALSE, TRUE}, {None}))
  \/ Effect("e2", {"readA", "aToB", "bToA"})
  \/ Runner
  \/ SetProp({"a", "b"}, Nums)

SpecRecurse == Init /\ [][NextRecurse]_vars

\* writes of every kind of value to o and to arr, to keys that exist and to
\* keys that do not
WriteVals == {Num(1), NaN, RawObj(1), ReactiveProxy(1), ReadonlyProxy(1)}

NextWrite ==
  \/ Effect("e1", {"readA", "idxLen"})
  \/ SetProp({"a"}, WriteVals)
  \/ DeleteProp({"a"})
  \/ ArraySet({NaN, RawObj(1), ReadonlyProxy(1)})

SpecWrite == Init /\ [][NextWrite]_vars

\* effects that enumerate the keys of o or of arr, and writes that add,
\* delete and change keys
NextKeys ==
  \/ Effect("e1", {"keysO", "keysArr"})
  \/ Effect("e2", {"readA", "keysO"})
  \/ SetProp({"a", "b"}, {Num(1), Num(2)})
  \/ DeleteProp({"a", "b"})
  \/ ArraySet({Num(1), Num(2)})
  \/ ArrayPush({Num(1)})

SpecKeys == Init /\ [][NextKeys]_vars

\* effects that push to and pop from arr, next to an effect that reads it
MethodFns == {"pushOne", "popOne", "pushReadA"}

NextMethods ==
  \/ Effect("e1", MethodFns)
  \/ Effect("e2", {"pushOne", "popOne", "idxLen"})
  \/ Runner
  \/ ArrayPush({Num(1)})
  \/ ArrayPop
  \/ SetProp({"a"}, {Num(1), Num(2)})

SpecMethods == Init /\ [][NextMethods]_vars

\* effects that read slots of o, of m and of arr and write nothing, created
\* in either order, and the writes that trigger them
NextOrder ==
  \/ Effect("e1", {"readIdx", "mGetSize", "keysO"})
  \/ Effect("e2", {"idxLen", "readLen", "readB", "mAll"})
  \/ SetProp({"b"}, {Num(1), Num(2)})
  \/ DeleteProp({"b"})
  \/ MapSet({Num(1), Num(2)})
  \/ MapDelete
  \/ MapClear
  \/ ArrayPush({Num(1)})
  \/ ArrayPop

SpecOrder == Init /\ [][NextOrder]_vars

\* tracking paused, enabled and reset from outside and from inside of
\* effects, and reads made from outside of any effect
NextTracking ==
  \/ Tracking
  \/ Effect("e1", {"pauseReadA", "nestedTrack"})
  \/ Effect("e2", {"readAB"})
  \/ Runner
  \/ GetProp({"a", "b"})
  \/ SetProp({"a", "b"}, {Num(1), Num(2)})

SpecTracking == Init /\ [][NextTracking]_vars

\* effects whose reads depend on o.flag, one of them run only by its owner,
\* and runs of them at a recursion depth past maxMarkerBits
NextDeep ==
  \/ EffectWith("e1", {"condA", "readAB"},
                Options({None, "job"}, {FALSE}, {None}))
  \/ Effect("e2", {"readA", "aToB"})
  \/ Runner
  \/ RunDeep
  \/ SetProp({"a"}, {Num(1), Num(2)})
  \/ SetProp({"flag"}, {TrueV, FalseV})

SpecDeep == Init /\ [][NextDeep]_vars

\* a computed whose getter throws while o.a is truthy, read from outside
\* and by an effect
NextGetterThrow ==
  \/ ComputedOf({"getterThrow"})
  \/ ReadComputed
  \/ Effect("e1", {"readC", "readCA"})
  \/ Effect("e2", {"readA", "readAB"})
  \/ Runner
  \/ SetProp({"a", "b"}, {Num(0), Num(1)})

SpecGetterThrow == Init /\ [][NextGetterThrow]_vars

\* effects that read a slot twice, change what they read, write, stop
\* themselves and run each other, run in both modes and stopped
NextGraph ==
  \/ Effect("e1", {"readAA", "condA", "incA", "readBRunE2"})
  \/ Effect("e2", {"readAA", "aToB", "stopSelf"})
  \/ Runner
  \/ RunDeep
  \/ Stop
  \/ SetProp({"a"}, {Num(1), Num(2)})
  \/ SetProp({"flag"}, {TrueV, FalseV})

SpecGraph == Init /\ [][NextGraph]_vars

\* effects that read o and m through a readonly wrapper only, and changes
\* of o and m made through the mutable wrappers
ReadonlyWrappers == {"readonly", "shallowReadonly", "readonlyOfReactive"}

NextReadonlyReads ==
  \/ Effect("e1", ReadonlyWrappers)
  \/ Effect("e2", ReadonlyWrappers \cup {"readA"})
  \/ Stop
  \/ SetProp({"a"}, {Num(1), Num(2)})
  \/ DeleteProp({"a"})
  \/ MapSet({Num(1), Num(2)})
  \/ MapDelete
  \/ MapClear

SpecReadonlyReads == Init /\ [][NextReadonlyReads]_vars

\* effects whose function throws: run directly, nested in another effect,
\* triggered by a write of another effect or by a push
NextThrow ==
  \/ Effect("e2", {"readAThrow", "lenThrow"})
  \/ Effect("e1", {"readA", "writeA1", "readBRunE2", "pushOne"})
  \/ Runner
  \/ SetProp({"a", "b"}, {Num(0), Num(1)})
  \/ ArrayPush({Num(1)})

SpecThrow == Init /\ [][NextThrow]_vars

\* --------------------------------------------------------------- scheduler
\* runtime-core/src/scheduler.ts. j1 and j2 are component update jobs with an id, j3 is a
\* job without one; j1 and j3 have allowRecurse. cb is a flush callback. All jobs are active.
Jobs == {"j1", "j2", "j3"}
Cbs == {"cb"}
Infinity == 99
hasId(job) == job \in {"j1", "j2"}
getId(job) == CASE job = "j1" -> 1 [] job = "j2" -> 2 [] OTHER -> Infinity
allowRecurse(job) == job \in {"j1", "j3", "watchJob"}

\* Array.prototype.includes(x, fromIndex), Array.prototype.splice(i, 0, x) and the stable
\* Array.prototype.sort((a, b) => getId(a) - getId(b)); indexes are the source's, from 0
includes(seq, x, fromIndex) == \E i \in (fromIndex + 1)..Len(seq) : seq[i] = x
splice(seq, i, x) ==
  IF i >= Len(seq) THEN Append(seq, x)
  ELSE SubSeq(seq, 1, i) \o <<x>> \o SubSeq(seq, i + 1, Len(seq))
sortById(seq) ==
  SelectSeq(seq, LAMBDA j : getId(j) = 1) \o SelectSeq(seq, LAMBDA j : getId(j) = 2)
    \o SelectSeq(seq, LAMBDA j : getId(j) = Infinity)

RECURSIVE findInsertionIndexFrom(_, _, _, _)
findInsertionIndexFrom(queue, id, start, end) ==
  IF start < end
  THEN IF getId(queue[((start + end) \div 2) + 1]) < id
       THEN findInsertionIndexFrom(queue, id, ((start + end) \div 2) + 1, end)
       ELSE findInsertionIndexFrom(queue, id, start, (start + end) \div 2)
  ELSE start
\* the insertion at the end of the queue whatever the id
findInsertionIndex_atEnd(q, id) == Len(q.queue)

findInsertionIndex(q, id) ==
  findInsertionIndexFrom(q.queue, id, q.flushIndex + 1, Len(q.queue))

\* queueFlush that schedules nothing
queueFlush_notScheduled(q) == q

queueFlush(q) ==
  IF ~q.isFlushing /\ ~q.isFlushPending THEN [q EXCEPT !.isFlushPending = TRUE] ELSE q

\* Array.prototype.indexOf, from 0, -1 when absent
indexOf(seq, x) ==
  IF \E i \in 1..Len(seq) : seq[i] = x
  THEN (CHOOSE i \in 1..Len(seq) : seq[i] = x /\ \A k \in 1..(i - 1) : seq[k] # x) - 1
  ELSE 0 - 1

invalidateJob(q, job) ==
  IF indexOf(q.queue, job) > q.flushIndex
  THEN [q EXCEPT !.queue = SubSeq(@, 1, indexOf(q.queue, job))
                             \o SubSeq(@, indexOf(q.queue, job) + 2, Len(@))]
  ELSE q

queueJob(q, job) ==
  IF (q.queue = <<>>
      \/ ~includes(q.queue, job,
                   IF q.isFlushing /\ allowRecurse(job) THEN q.flushIndex + 1
                   ELSE q.flushIndex))
     /\ job # q.currentPreFlushParentJob
  THEN queueFlush([q EXCEPT !.queue =
         IF ~hasId(job) THEN Append(@, job)
         ELSE splice(@, findInsertionIndex(q, getId(job)), job)])
  ELSE q

\* queuePreFlushCb and queuePostFlushCb; a null active queue is the empty sequence here,
\* the code never holds an empty active queue
queueCb(q, cb, activeQueue, pendingName, index) ==
  queueFlush(IF ~includes(activeQueue, cb, IF allowRecurse(cb) THEN index + 1 ELSE index)
             THEN [q EXCEPT ![pendingName] = Append(@, cb)]
             ELSE q)
queuePreFlushCb(q, cb) ==
  queueCb(q, cb, q.activePreFlushCbs, "pendingPreFlushCbs", q.preFlushIndex)
queuePostFlushCb(q, cb) ==
  queueCb(q, cb, q.activePostFlushCbs, "pendingPostFlushCbs", q.postFlushIndex)

\* flushJobs and the flushes it calls, run up to the next call of a callback or a job
\* (pc = "pre", "job", "post": that callback is executing) or to the end of the flush (pc = "idle")
RECURSIVE flushJobs(_)
RECURSIVE flushPreFlushCbs(_, _)
RECURSIVE preLoop(_, _)
RECURSIVE jobLoop(_)
RECURSIVE postLoop(_)

RECURSION_LIMIT == 100

\* checkRecursiveUpdates(seen, fn) returns true; countMap names the CountMap, "seen" or "nestedSeen"
limitExceeded_late(q, countMap, fn) == q.dev /\ q[countMap][fn] > RECURSION_LIMIT + 1
limitExceeded(q, countMap, fn) == q.dev /\ q[countMap][fn] > RECURSION_LIMIT
\* what checkRecursiveUpdates(seen, fn) does when __DEV__
checkRecursiveUpdates(q, countMap, fn) ==
  IF ~q.dev THEN q
  ELSE IF q[countMap][fn] > RECURSION_LIMIT THEN [q EXCEPT !.warned = TRUE]
  ELSE [q EXCEPT ![countMap][fn] = @ + 1]
\* apiWatch doWatch (in src/packages/runtime-core/src/apiLifecycle.ts). One watcher w without
\* a component instance: w.cb says whether it has a callback (watch) or not (watchEffect),
\* w.active is effect.active, w.deps whether the effect is subscribed to the source's
\* dependency, w.stopped whether the stop handle has returned. The job of a watcher with a
\* callback is "watchJob" (job.allowRecurse = !!cb), that of one without "watchEffectJob";
\* "effectRun" is effect.run.bind(effect).
WatchFns == {"watchJob", "watchEffectJob", "effectRun"}
jobOf(w) == IF w.cb THEN "watchJob" ELSE "watchEffectJob"
\* the getter calls the source function; the job calls the callback
callSource(w) == [w EXCEPT !.sourceAfterStop = @ \/ w.stopped]
callCb(w) == [w EXCEPT !.cbAfterStop = @ \/ w.stopped]
\* effect.run(): an inactive effect calls fn without tracking, an active one tracks what
\* fn reads
effectRun(w) == IF ~w.active THEN callSource(w) ELSE [callSource(w) EXCEPT !.deps = TRUE]
\* the job of doWatch; the watched value has changed (or the watcher is deep)
watchJob(w) ==
  IF ~w.active THEN w
  ELSE IF w.cb THEN callCb(effectRun(w))
  ELSE effectRun(w)
\* the scheduler of the watcher's effect
watchScheduler(q) ==
  CASE q.watcher.flush = "sync" -> [q EXCEPT !.watcher = watchJob(@)]
    [] q.watcher.flush = "post" -> queuePostFlushCb(q, jobOf(q.watcher))
    [] OTHER -> queuePreFlushCb(q, jobOf(q.watcher))
\* doWatch(source, cb, { immediate, flush }) from the creation of the effect on
doWatch(q, flush, cb, immediate) ==
  LET w == [watcherInit EXCEPT !.created = TRUE, !.flush = flush, !.cb = cb,
                               !.active = TRUE]
  IN  IF cb
      THEN [q EXCEPT !.watcher = IF immediate THEN watchJob(w) ELSE effectRun(w)]
      ELSE IF flush = "post"
      THEN queuePostFlushCb([q EXCEPT !.watcher = w], "effectRun")
      ELSE [q EXCEPT !.watcher = effectRun(w)]
\* the stop handle doWatch returns: effect.stop()
stopWatch(q) == [q EXCEPT !.watcher.active = FALSE, !.watcher.deps = FALSE,
                          !.watcher.stopped = TRUE]
\* what the function fn does when the flush calls it
callJob(w, fn) ==
  CASE fn \in {"watchJob", "watchEffectJob"} -> watchJob(w)
    [] fn = "effectRun" -> effectRun(w)
    [] OTHER -> w

\* the flush calls the job or callback fn, which executes now
invoke(q, fn, pc) ==
  [q EXCEPT !.pc = pc, !.runs[fn] = IF q.dev THEN @ + 1 ELSE @,
            !.watcher = callJob(@, fn)]
\* seen = seen || new Map() of a call without a CountMap
newSeen(q, countMap) ==
  IF countMap = "seen"
  THEN [q EXCEPT !.seen = [fn \in SchedulerJobs |-> 0],
                 !.runs = [fn \in SchedulerJobs |-> 0],
                 !.warned = FALSE]
  ELSE [q EXCEPT !.nestedSeen = [fn \in SchedulerJobs |-> 0]]

\* the end of the finally block of flushJobs
flushJobsEnd(q) ==
  IF q.queue # <<>> \/ q.pendingPreFlushCbs # <<>> \/ q.pendingPostFlushCbs # <<>>
  THEN flushJobs([q EXCEPT !.isFlushing = FALSE])
  ELSE [q EXCEPT !.isFlushing = FALSE, !.pc = "idle"]

postLoop(q) ==
  IF q.postFlushIndex < Len(q.activePostFlushCbs)
  THEN IF limitExceeded(q, "seen", q.activePostFlushCbs[q.postFlushIndex + 1])
       THEN postLoop([checkRecursiveUpdates(q, "seen",
                                            q.activePostFlushCbs[q.postFlushIndex + 1])
                        EXCEPT !.postFlushIndex = @ + 1])
       ELSE invoke(checkRecursiveUpdates(q, "seen", q.activePostFlushCbs[q.postFlushIndex + 1]),
                  q.activePostFlushCbs[q.postFlushIndex + 1], "post")
  ELSE flushJobsEnd([q EXCEPT !.activePostFlushCbs = <<>>, !.postFlushIndex = 0])

\* flushPostFlushCbs with a list already active (#1947): the pending callbacks go to its end
pushActivePost(q) ==
  [q EXCEPT !.activePostFlushCbs = @ \o Dedup(q.pendingPostFlushCbs),
            !.pendingPostFlushCbs = <<>>]

\* flushPostFlushCbs without the sort of the new active list
flushPostFlushCbs_unsorted(q) ==
  IF q.pendingPostFlushCbs # <<>>
  THEN IF q.activePostFlushCbs # <<>>
       THEN flushJobsEnd(pushActivePost(q))
       ELSE postLoop([q EXCEPT !.activePostFlushCbs = Dedup(q.pendingPostFlushCbs),
                               !.pendingPostFlushCbs = <<>>,
                               !.postFlushIndex = 0])
  ELSE flushJobsEnd(q)

\* flushPostFlushCbs as flushJobs calls it, which goes on when it returns
flushPostFlushCbs(q) ==
  IF q.pendingPostFlushCbs # <<>>
  THEN IF q.activePostFlushCbs # <<>>
       THEN flushJobsEnd(pushActivePost(q))
       ELSE postLoop([q EXCEPT !.activePostFlushCbs = sortById(Dedup(q.pendingPostFlushCbs)),
                               !.pendingPostFlushCbs = <<>>,
                               !.postFlushIndex = 0])
  ELSE flushJobsEnd(q)

\* the for loop of flushJobs and the start of its finally block
jobLoop(q) ==
  IF q.flushIndex < Len(q.queue)
  THEN IF limitExceeded(q, "seen", q.queue[q.flushIndex + 1])
       THEN jobLoop([checkRecursiveUpdates(q, "seen", q.queue[q.flushIndex + 1])
                       EXCEPT !.flushIndex = @ + 1])
       ELSE invoke(checkRecursiveUpdates(q, "seen", q.queue[q.flushIndex + 1]),
                  q.queue[q.flushIndex + 1], "job")
  ELSE flushPostFlushCbs([q EXCEPT !.flushIndex = 0, !.queue = <<>>])

preLoop(q, parentJob) ==
  IF q.preFlushIndex < Len(q.activePreFlushCbs)
  THEN IF limitExceeded(q, IF parentJob = None THEN "seen" ELSE "nestedSeen",
                        q.activePreFlushCbs[q.preFlushIndex + 1])
       THEN preLoop([checkRecursiveUpdates(q, IF parentJob = None THEN "seen" ELSE "nestedSeen",
                                           q.activePreFlushCbs[q.preFlushIndex + 1])
                       EXCEPT !.preFlushIndex = @ + 1],
                    parentJob)
       ELSE invoke(checkRecursiveUpdates(q, IF parentJob = None THEN "seen" ELSE "nestedSeen",
                                        q.activePreFlushCbs[q.preFlushIndex + 1]),
                  q.activePreFlushCbs[q.preFlushIndex + 1], "pre")
  ELSE flushPreFlushCbs([q EXCEPT !.activePreFlushCbs = <<>>,
                                  !.preFlushIndex = 0,
                                  !.currentPreFlushParentJob = None],
                        parentJob)

\* with a parentJob the call comes from that job, which goes on when it returns;
\* without one it comes from flushJobs, which goes on to sort and run the queue
flushPreFlushCbs(q, parentJob) ==
  IF q.pendingPreFlushCbs # <<>>
  THEN preLoop([q EXCEPT !.currentPreFlushParentJob = parentJob,
                         !.activePreFlushCbs = Dedup(q.pendingPreFlushCbs),
                         !.pendingPreFlushCbs = <<>>,
                         !.preFlushIndex = 0],
               parentJob)
  ELSE IF parentJob # None
       THEN [q EXCEPT !.pc = "job"]
       ELSE jobLoop([q EXCEPT !.queue = sortById(@), !.flushIndex = 0])

flushJobs(q) ==
  flushPreFlushCbs([q EXCEPT !.isFlushPending = FALSE, !.isFlushing = TRUE], None)

\* where code that calls the scheduler runs: outside a flush, or in the callback or job
\* the flush is executing
UserCode == {"idle", "pre", "job", "post"}
MaxQueue == 4
MaxCbs == 2

QueueJob(jobs) ==
  \E job \in jobs :
    /\ sched.pc \in UserCode
    /\ Len(sched.queue) < MaxQueue
    /\ sched' = queueJob(sched, job)
    /\ UNCHANGED reactivityVars

QueuePreFlushCb ==
  \E cb \in Cbs :
    /\ sched.pc \in UserCode
    /\ Len(sched.pendingPreFlushCbs) < MaxCbs
    /\ sched' = queuePreFlushCb(sched, cb)
    /\ UNCHANGED reactivityVars

QueuePostFlushCb ==
  \E cb \in Cbs :
    /\ sched.pc \in UserCode
    /\ Len(sched.pendingPostFlushCbs) < MaxCbs
    /\ sched' = queuePostFlushCb(sched, cb)
    /\ UNCHANGED reactivityVars

\* the microtask queueFlush scheduled
FlushJobs ==
  /\ sched.pc = "idle"
  /\ sched.isFlushPending
  /\ sched' = flushJobs(newSeen(sched, "seen"))
  /\ UNCHANGED reactivityVars

\* the running job calls flushPreFlushCbs(undefined, instance.update) before it renders
FlushPreInJob ==
  /\ sched.pc = "job"
  /\ sched.pendingPreFlushCbs # <<>>
  /\ sched' = flushPreFlushCbs(newSeen(sched, "nestedSeen"),
                                sched.queue[sched.flushIndex + 1])
  /\ UNCHANGED reactivityVars

\* the executing callback or job returns and the loop that called it goes on
Return ==
  /\ sched.pc \in {"pre", "job", "post"}
  /\ sched' = CASE sched.pc = "pre" ->
                     preLoop([sched EXCEPT !.preFlushIndex = @ + 1],
                             sched.currentPreFlushParentJob)
                [] sched.pc = "job" -> jobLoop([sched EXCEPT !.flushIndex = @ + 1])
                [] OTHER -> postLoop([sched EXCEPT !.postFlushIndex = @ + 1])
  /\ UNCHANGED reactivityVars

NextQueue ==
  \/ QueueJob(Jobs)
  \/ QueuePreFlushCb
  \/ QueuePostFlushCb
  \/ FlushJobs
  \/ FlushPreInJob
  \/ Return

SpecQueue == Init /\ [][NextQueue]_vars

\* invalidateJob(job) called by user code, a callback or a job
InvalidateJob(jobs) ==
  \E job \in jobs :
    /\ sched.pc \in UserCode
    /\ sched' = invalidateJob(sched, job)
    /\ UNCHANGED reactivityVars

NextInvalidate ==
  \/ QueueJob(Jobs)
  \/ InvalidateJob(Jobs)
  \/ QueuePreFlushCb
  \/ QueuePostFlushCb
  \/ FlushJobs
  \/ FlushPreInJob
  \/ Return

SpecInvalidate == Init /\ [][NextInvalidate]_vars

\* callbacks with an id and without, one with allowRecurse
PhaseCbs == {"j1", "j2", "cb"}

\* queuePreFlushCb(cb) or queuePostFlushCb(cb) called by user code, a callback or a job
QueueCb(cbs) ==
  \E cb \in cbs :
    /\ sched.pc \in UserCode
    /\ \/ /\ Len(sched.pendingPreFlushCbs) < MaxCbs
          /\ sched' = queuePreFlushCb(sched, cb)
       \/ /\ Len(sched.pendingPostFlushCbs) < MaxCbs
          /\ sched' = queuePostFlushCb(sched, cb)
    /\ UNCHANGED reactivityVars

\* the executing post-flush callback calls render(), which calls flushPostFlushCbs()
FlushPostInCb ==
  /\ sched.pc = "post"
  /\ sched.pendingPostFlushCbs # <<>>
  /\ Len(sched.activePostFlushCbs) < MaxQueue
  /\ sched' = pushActivePost(sched)
  /\ UNCHANGED reactivityVars

NextPhases ==
  \/ QueueJob({"j1", "j2"})
  \/ QueueCb(PhaseCbs)
  \/ FlushJobs
  \/ FlushPreInJob
  \/ FlushPostInCb
  \/ Return

SpecPhases == Init /\ [][NextPhases]_vars

\* a bounded number of queueJob, queuePreFlushCb and queuePostFlushCb calls, made by user
\* code, a callback or a job
MaxEnqueues == 4
DrainJobs == {"j1", "j2"}
Enqueue ==
  \E job \in DrainJobs :
    /\ sched.pc \in UserCode
    /\ sched.enqueues < MaxEnqueues
    /\ \/ sched' = [queueJob(sched, job) EXCEPT !.enqueues = @ + 1]
       \/ sched' = [queuePreFlushCb(sched, job) EXCEPT !.enqueues = @ + 1]
       \/ sched' = [queuePostFlushCb(sched, job) EXCEPT !.enqueues = @ + 1]
    /\ UNCHANGED reactivityVars

NextDrain ==
  \/ Enqueue
  \/ FlushJobs
  \/ FlushPreInJob
  \/ Return

\* the microtask runs, and every callback and job returns
SpecDrain == Init /\ [][NextDrain]_vars /\ WF_vars(FlushJobs) /\ WF_vars(Return)

\* the development build (__DEV__ true)
InitDev == InitReactivity /\ sched = schedInit(TRUE)

\* the executing job calls queueJob for itself
Requeue ==
  /\ sched.pc = "job"
  /\ sched' = queueJob(sched, sched.queue[sched.flushIndex + 1])
  /\ UNCHANGED reactivityVars

\* a job with allowRecurse that can queue itself again whenever it runs
NextDev ==
  \/ QueueJob({"j3"})
  \/ Requeue
  \/ FlushJobs
  \/ Return

\* every callback and job returns
SpecDev == InitDev /\ [][NextDev]_vars /\ WF_vars(Return)


\* one watcher is created, its source changes, its stop handle is called: by user code, a
\* callback or a job
Watch(flushes, cbs, immediates) ==
  \E flush \in flushes, cb \in cbs, immediate \in immediates :
    /\ sched.pc \in UserCode
    /\ ~sched.watcher.created
    /\ cb \/ ~immediate
    /\ Len(sched.pendingPostFlushCbs) < MaxCbs
    /\ sched' = doWatch(sched, flush, cb, immediate)
    /\ UNCHANGED reactivityVars

\* a write to what the source reads: triggerEffects calls the scheduler of the subscribed effect
TriggerWatch ==
  /\ sched.pc \in UserCode
  /\ sched.watcher.deps
  /\ Len(sched.pendingPreFlushCbs) < MaxCbs
  /\ Len(sched.pendingPostFlushCbs) < MaxCbs
  /\ sched' = watchScheduler(sched)
  /\ UNCHANGED reactivityVars

StopWatch ==
  /\ sched.pc \in UserCode
  /\ sched.watcher.created
  /\ sched' = stopWatch(sched)
  /\ UNCHANGED reactivityVars

NextWatch ==
  \/ Watch({"pre", "post", "sync"}, BOOLEAN, BOOLEAN)
  \/ TriggerWatch
  \/ StopWatch
  \/ QueueJob({"j1"})
  \/ FlushJobs
  \/ Return

SpecWatch == Init /\ [][NextWatch]_vars

\* the executing pre-flush or post-flush callback throws. flushJobs calls flushPreFlushCbs
\* before its try block and flushPostFlushCbs inside its finally block, and neither
\* function catches: the exception leaves flushJobs at once, and nothing is assigned
throwCb(q) == [q EXCEPT !.pc = "idle"]

Throw ==
  /\ sched.pc \in {"pre", "post"}
  /\ sched.currentPreFlushParentJob = None
  /\ sched' = throwCb(sched)
  /\ UNCHANGED reactivityVars

NextFlushThrow ==
  \/ QueueJob({"j1", "j2"})
  \/ QueueCb({"cb"})
  \/ FlushJobs
  \/ Return
  \/ Throw

SpecFlushThrow == Init /\ [][NextFlushThrow]_vars

\* ================================================================ properties
\* how often x occurs in seq
CountOf(seq, x) == Cardinality({i \in 1..Len(seq) : seq[i] = x})

\* the step is the write o.a = v from outside of any effect, the write
\* changed o.a, and no effect wrote o.a again while its subscribers ran
SingleChangingWriteOfA ==
  /\ op' = <<"set", "a">>
  /\ ~overflow'
  /\ CountOf(triggered', <<"o", "set", "a">>) = 1

\* e is an active effect without scheduler
PlainActive(e) == effFn[e] # None /\ effActive[e] /\ effScheduler[e] = None

C2_DependencyShrinkage ==
  /\ [](\A e \in UserEffects :
          (effFn[e] = "condA" /\ effActive[e] /\ <<"o", "a">> \notin lastReads[e])
            => ~InSeq(e, depSubs[<<"o", "a">>]))
  /\ [][\A e \in UserEffects :
          (op' = <<"set", "a">> /\ effFn[e] = "condA" /\ effActive[e]
             /\ <<"o", "a">> \notin lastReads[e])
            => calls'[e] = 0]_vars

\* C3: cell membership invariant.  Whenever no effect is running, a
\* non-stopped effect is a member of a cell if and only if its most recent
\* completed run read the slot of the cell.
C3_CellMembership ==
  activeEffect = None =>
    \A e \in UserEffects, cell \in Cells :
      (effFn[e] # None /\ effActive[e])
        => (InSeq(e, depSubs[cell]) <=> cell \in lastReads[e])

\* C4: computed laziness.  As long as c.value has not been read, the getter
\* of c has not been invoked, however often o.a is written.
C4_ComputedLaziness == ~cRead => ~getterRan

\* c exists, o.a has been written since, c.value has never been read and the
\* getter has not run
C4_Witness ==
  /\ op = <<"set", "a">> /\ triggered # <<>>
  /\ effFn["ce"] = "getter"
  /\ ~cRead /\ ~getterRan /\ calls["ce"] = 0

\* C5: computed caching.  A read of c.value that follows another read with
\* no change of o.a in between does not invoke the getter.
C5_ComputedCaching == ~cacheMiss

\* C6: ref no-op on same value.  r.value = v with toRaw(v) the same value as
\* the stored raw value (NaN the same as NaN) triggers nothing, invokes no
\* subscriber and leaves _rawValue and _value unchanged; after r.value = v
\* the stored raw value is toRaw(v), so a repeated r.value = v is such a write.
C6_RefNoOpOnSameValue ==
  /\ [](op = <<"rset", "r">> => refRaw = toRaw(arg))
  /\ [][(op' = <<"rset", "r">> /\ toRaw(arg') = refRaw)
          => /\ triggered' = <<>>
             /\ \A e \in Effects : calls'[e] = 0 /\ schedCalls'[e] = 0
             /\ refRaw' = refRaw /\ refValue' = refValue]_vars

\* r holds a raw object, an effect is subscribed to r, and r.value has just
\* been assigned the reactive proxy of that object: nothing was triggered
C6_Witness ==
  /\ op = <<"rset", "r">> /\ arg = ReactiveProxy(1) /\ refRaw = RawObj(1)
  /\ InSeq("e1", depSubs[<<"r", "value">>])
  /\ triggered = <<>> /\ calls["e1"] = 0

\* the operations through a readonly wrapper
ReadonlyOps == {"roset", "rodelete", "romethod"}

\* C7: readonly immutability.  A set or delete through readonly(o) or
\* shallowReadonly(o), and an add / set / delete / clear through readonly(m),
\* leaves o and m unchanged, calls no trigger and invokes no subscriber
\* function or scheduler.
C7_ReadonlyImmutability ==
  [][op'[1] \in ReadonlyOps
       => /\ obj' = obj /\ map' = map
          /\ triggered' = <<>>
          /\ \A e \in Effects : calls'[e] = 0 /\ schedCalls'[e] = 0]_vars

\* ro.a = 2 has been attempted while o.a is 1 and an effect is subscribed to
\* o.a: o.a is still 1 and the effect was not invoked
C7_Witness ==
  /\ op = <<"roset", "readonly">> /\ arg = Num(2)
  /\ obj["a"] = Num(1)
  /\ InSeq("e1", depSubs[<<"o", "a">>])
  /\ triggered = <<>> /\ calls["e1"] = 0

\* C8 (as stated): every delete through a readonly wrapper returns false, a
\* rejected add / set / clear on a readonly collection returns the
\* collection, and none of them throws.
C8_DeleteReturnsFalse ==
  /\ op[1] = "rodelete" => ret = FalseV
  /\ op = <<"romethod", "delete">> => ret = FalseV
  /\ (op[1] = "romethod" /\ op[2] # "delete") => ret = ReadonlyMapProxy
  /\ op[1] \in ReadonlyOps => ~exc

\* C8 (amended): set and deleteProperty on a readonly plain object return
\* true, delete on a readonly collection returns false, a rejected add / set
\* / clear on a readonly collection returns the collection, and none of them
\* throws.
C8_PlainObjectTrapsReturnTrue ==
  /\ op[1] \in {"roset", "rodelete"} => ret = TrueV
  /\ op = <<"romethod", "delete">> => ret = FalseV
  /\ (op[1] = "romethod" /\ op[2] # "delete") => ret = ReadonlyMapProxy
  /\ op[1] \in ReadonlyOps => ~exc

\* delete ro.a has been attempted on an own key and returned true
C8_Witness ==
  /\ op = <<"rodelete", "readonly">>
  /\ obj["a"] # Absent /\ obj["b"] # Absent
  /\ ret = TrueV /\ ~exc


\* the step is m.set(k, v) from outside of any effect
MapSetOf(k) == op' = <<"mset", k>> /\ ~overflow'
\* e is an active effect whose last run read the cell <<"m", key>>
ReadsMap(e, key) == PlainActive(e) /\ <<"m", key>> \in lastReads[e]

\* C9 (as stated): m.set(k, v) with k absent issues an ADD trigger that
\* re-runs every subscriber of size, forEach, keys, values; with k present
\* and a changed value it issues a SET trigger that re-runs the subscribers
\* of k and does not re-run the subscribers that read only keys() or size;
\* with k present and the same value it triggers nothing.
C9_SetSparesSizeAndKeys ==
  [][\A k \in MapKeys : MapSetOf(k) =>
       /\ map[k] = Absent =>
            /\ triggered' = << <<"m", "add", k>> >>
            /\ \A e \in UserEffects :
                 (ReadsMap(e, ITERATE_KEY) \/ ReadsMap(e, MAP_KEY_ITERATE_KEY))
                   => calls'[e] = 1
       /\ (map[k] # Absent /\ map[k] # toRaw(arg')) =>
            /\ triggered' = << <<"m", "set", k>> >>
            /\ \A e \in UserEffects :
                 /\ ReadsMap(e, k) => calls'[e] = 1
                 /\ (PlainActive(e)
                       /\ lastReads[e] \subseteq {<<"m", ITERATE_KEY>>,
                                                  <<"m", MAP_KEY_ITERATE_KEY>>}
                       /\ effFn[e] \in {"mSize", "mKeys"})
                      => calls'[e] = 0
       /\ map[k] = toRaw(arg') =>
            /\ triggered' = <<>>
            /\ \A e \in Effects : calls'[e] = 0 /\ schedCalls'[e] = 0]_vars

\* C9 (amended): as C9, but a SET trigger re-runs, next to the subscribers of
\* k, the subscribers of ITERATE_KEY, which size, forEach and values() read;
\* it does not re-run the subscribers that read only keys(), nor those of
\* another key.
C9_SetRerunsSizeNotKeys ==
  [][\A k \in MapKeys : MapSetOf(k) =>
       /\ map[k] = Absent =>
            /\ triggered' = << <<"m", "add", k>> >>
            /\ \A e \in UserEffects :
                 (ReadsMap(e, ITERATE_KEY) \/ ReadsMap(e, MAP_KEY_ITERATE_KEY))
                   => calls'[e] = 1
       /\ (map[k] # Absent /\ map[k] # toRaw(arg')) =>
            /\ triggered' = << <<"m", "set", k>> >>
            /\ \A e \in UserEffects :
                 /\ (ReadsMap(e, k) \/ ReadsMap(e, ITERATE_KEY)) => calls'[e] = 1
                 /\ (PlainActive(e) /\ ~ReadsMap(e, k) /\ ~ReadsMap(e, ITERATE_KEY))
                      => calls'[e] = 0
       /\ map[k] = toRaw(arg') =>
            /\ triggered' = <<>>
            /\ \A e \in Effects : calls'[e] = 0 /\ schedCalls'[e] = 0]_vars

\* m.set("k1", v) has overwritten an existing entry with another value and
\* has re-run the effect that reads m.size, but not the one that reads m.keys()
C9_Witness ==
  /\ op = <<"mset", "k1">> /\ triggered = << <<"m", "set", "k1">> >>
  /\ effFn["e1"] = "mSize" /\ calls["e1"] = 1
  /\ effFn["e2"] = "mKeys" /\ calls["e2"] = 0

\* the program state proper: everything but the observations of the last
\* operation
ProgramState ==
  <<obj, map, arr, refRaw, refValue, cDirty, cValue, depsMap, depSubs, depW,
    depN, effFn, effActive, effDeps, effParent, effScheduler, effAllowRecurse,
    effOnStop, activeEffect, shouldTrack, trackStack, effectTrackDepth,
    trackOpBit>>

\* e is a member of no cell and its cell list is empty
Unsubscribed(e) ==
  /\ \A cell \in Cells : ~InSeq(e, depSubs[cell])
  /\ effDeps[e] = <<>>

\* C10: recursion guard.  No effect here has allowRecurse: the function of
\* an effect is never entered while it is still running, and every run and
\* every write from outside ends without exhausting the call stack.
C10_RecursionGuard == ~reentered /\ ~overflow

\* C11: stop() of an effect that is not running, called from outside of any
\* effect: if the effect was active it is afterwards a member of no cell, its
\* cell list is empty, it is stopped and its onStop hook, if any, has been
\* invoked once; if it was stopped already, no state changes and the hook is
\* not invoked.  Over any number of stop() calls the hook runs at most once.
C11_StopIdempotent ==
  /\ [][\A e \in UserEffects : op' = <<"stop", e>> =>
          /\ effActive[e] =>
               /\ Unsubscribed(e)' /\ ~effActive'[e]
               /\ onStopCalls'[e] =
                    onStopCalls[e] + (IF effOnStop[e] # None THEN 1 ELSE 0)
          /\ ~effActive[e] =>
               /\ ProgramState' = ProgramState
               /\ onStopCalls' = onStopCalls]_vars
  /\ [](\A e \in UserEffects : onStopCalls[e] <= 1)

\* C12: stop() from within the effect's own function.  Once the run() in
\* which effect(() => { ..; e.stop(); <further reads> }) stopped itself has
\* returned, e is a member of no cell and its cell list is empty.
C12_SelfStopUnsubscribes ==
  \A e \in UserEffects :
    (effFn[e] \in {"stopSelf", "stopInc"} /\ ~effActive[e]
       /\ activeEffect = None /\ fnDepth[e] = 0 /\ ~overflow)
      => Unsubscribed(e)

\* C13: when the function of an effect throws during run(), the exception
\* reaches the caller of the operation, and every run() that it passes
\* through returns with activeEffect, shouldTrack, the length of trackStack,
\* effectTrackDepth and trackOpBit as they were when that run() was entered.
C13_ThrowRestoresTracking ==
  (op[1] \in {"effect", "run", "set", "apush"} /\ exc /\ ~overflow)
    => ~restoreFailed

\* C14: computed cache validity.  A read of c.value that finds the computed
\* not dirty returns what the getter () => o.a + 1 returns on the current
\* value of o.a, also when the reader is an effect that the write of o.a is
\* re-running.
C14_CacheValidity == ~overflow => ~staleRead

\* the cells that the claim names as affected by the trigger call trig
AffectedCells(trig) ==
  CASE trig[1] = "m" /\ trig[2] = "add" ->
         {<<"m", trig[3]>>, <<"m", ITERATE_KEY>>, <<"m", MAP_KEY_ITERATE_KEY>>}
    [] trig[1] = "m" /\ trig[2] = "clear" ->
         {<<"m", k>> : k \in MapKeys \cup {ITERATE_KEY, MAP_KEY_ITERATE_KEY}}
    [] trig[1] = "arr" /\ trig[2] = "add" ->
         {<<"arr", trig[3]>>, <<"arr", "length">>}
    [] OTHER -> {}

\* C15: trigger deduplication.  When a write from outside of any effect
\* makes one trigger call that affects several cells (array index ADD, Map
\* ADD, clear), an active effect that is a member of more than one of them
\* is invoked exactly once: its function if it has no scheduler, its
\* scheduler otherwise.
C15_TriggerDeduplication ==
  [][\A e \in UserEffects :
       (/\ Len(triggered') = 1 /\ ~overflow'
        /\ effFn[e] # None /\ effActive[e]
        /\ Cardinality({cell \in AffectedCells(triggered'[1]) :
                          InSeq(e, depSubs[cell])}) >= 2)
         => IF effScheduler[e] = None
            THEN calls'[e] = 1 /\ schedCalls'[e] = 0
            ELSE schedCalls'[e] = 1 /\ calls'[e] = 0]_vars

\* arr.push(1) on the empty array has triggered ADD of index 0; the effect
\* that read arr[0] and arr.length, a member of both cells, was run once
C15_Witness ==
  /\ op = <<"apush", None>> /\ triggered = << <<"arr", "add", "0">> >>
  /\ effFn["e1"] = "idxLen" /\ calls["e1"] = 1
  /\ InSeq("e1", depSubs[<<"arr", "0">>])
  /\ InSeq("e1", depSubs[<<"arr", "length">>])

\* C16: computed invalidation.  A write from outside of any effect that
\* changes o.a, which the getter of c read, calls the scheduler of the
\* computed once.  The change does not invoke the getter: it runs during
\* the write only if an effect reads c.value.  If c was not dirty,
\* triggerRefValue(c) is called once and c is dirty afterwards unless a
\* subscriber read it again; if c was dirty and no effect reads c.value,
\* triggerRefValue(c) is not called.  Between two reads of c.value
\* triggerRefValue(c) is called at most once.
C16_ComputedInvalidation ==
  /\ [][(SingleChangingWriteOfA /\ effFn["ce"] # None
            /\ <<"o", "a">> \in lastReads["ce"])
          => /\ schedCalls'["ce"] = 1
             /\ depSubs[<<"c", "value">>] = <<>> => calls'["ce"] = 0
             /\ ~cDirty =>
                  /\ CountOf(triggered', <<"c", "set", "value">>) = 1
                  /\ depSubs[<<"c", "value">>] = <<>> => cDirty'
             /\ (cDirty /\ \A e \in UserEffects : ~UsesComputed(effFn[e])) =>
                  /\ CountOf(triggered', <<"c", "set", "value">>) = 0
                  /\ cDirty']_vars
  /\ [](~overflow => cNotified <= 1)

\* how many of the trigger calls in trigs are SET triggers of a cell of o
\* that e is a member of, with the members given by subs
TriggersOf(trigs, e, subs) ==
  Cardinality({i \in 1..Len(trigs) :
                 /\ trigs[i][1] = "o" /\ trigs[i][2] = "set"
                 /\ InSeq(e, subs[<<"o", trigs[i][3]>>])})

\* C17: scheduler hand-off.  For an effect e with a scheduler: an operation
\* other than e's own creation or run() calls the scheduler once for every
\* trigger call on a cell that e is a member of, and never the function;
\* run() called by the user invokes the function once, and a write that the
\* function makes to a slot it read calls the scheduler only if e has
\* allowRecurse (otherwise e, being the active effect, is skipped).
C17_SchedulerHandOff ==
  [][\A e \in UserEffects :
       (effFn[e] # None /\ effScheduler[e] = "job" /\ ~overflow')
         => /\ op' \notin {<<"effect", e>>, <<"run", e>>} =>
                 /\ calls'[e] = 0
                 /\ schedCalls'[e] = TriggersOf(triggered', e, depSubs)
            /\ op' = <<"run", e>> =>
                 /\ calls'[e] = 1
                 /\ schedCalls'[e] =
                      IF effAllowRecurse[e]
                      THEN TriggersOf(triggered', e, depSubs') ELSE 0]_vars

\* o.a = v has run the effect that copies o.a to o.b; the effect with a
\* scheduler that read both had its scheduler called for each of the two
\* trigger calls and its function not at all
C17_Witness ==
  /\ op = <<"set", "a">> /\ Len(triggered) = 2
  /\ effFn["e1"] = "readAB" /\ effScheduler["e1"] = "job" /\ effActive["e1"]
  /\ effFn["e2"] = "aToB"
  /\ schedCalls["e1"] = 2 /\ calls["e1"] = 0

\* effect e has been stopped and its function () => seen = o.a is invoked by
\* this step
StoppedRun(e) ==
  /\ effFn[e] = "readA" /\ ~effActive[e]
  /\ calls'[e] >= 1 /\ ~overflow'

\* C18 (as stated): run() of a stopped effect invokes the function without
\* tracking: the stopped effect is added to no cell, activeEffect and the
\* tracking depth are as before the call, and the reads of the function
\* register no subscriber: no effect is added to the cell of o.a, also when
\* the stopped effect is run while another effect is active.
C18_StoppedRunRegistersNothing ==
  [][\A e \in UserEffects : StoppedRun(e) =>
       /\ Unsubscribed(e)'
       /\ ~inactiveMoved'
       /\ seen'[e] = obj'["a"]
       /\ \A other \in UserEffects :
            InSeq(other, depSubs'[<<"o", "a">>])
              => InSeq(other, depSubs[<<"o", "a">>])]_vars

\* C18 (amended): run() of a stopped effect invokes the function; the
\* stopped effect is added to no cell, and activeEffect and the tracking
\* depth are as before the call.  Called from outside of any effect the
\* reads of the function register no subscriber; called while another
\* effect is running, they subscribe that effect to the slots read.
C18_StoppedRunTracksForCaller ==
  [][\A e \in UserEffects : StoppedRun(e) =>
       /\ Unsubscribed(e)'
       /\ ~inactiveMoved'
       /\ seen'[e] = obj'["a"]
       /\ op' = <<"run", e>> => depSubs' = depSubs
       /\ \A other \in UserEffects \ {e} :
            (effFn'[other] = "readBRunE2" /\ effActive'[other]
               /\ calls'[other] >= 1)
              => InSeq(other, depSubs'[<<"o", "a">>])]_vars

\* effect(() => { seen = o.b; runner2() }) has run the stopped runner2: the
\* stopped effect is in no cell, the calling effect is in the cell of o.a
C18_Witness ==
  /\ op = <<"effect", "e1">> /\ effFn["e1"] = "readBRunE2"
  /\ effFn["e2"] = "readA" /\ ~effActive["e2"] /\ calls["e2"] = 1
  /\ Unsubscribed("e2")
  /\ InSeq("e1", depSubs[<<"o", "a">>])

\* this step is effect() or run() of e, whose function
\* () => { seen = o.a; o.a = seen + 1 } writes the slot it read; e has no
\* scheduler
SelfWrite(e) ==
  /\ op' \in {<<"effect", e>>, <<"run", e>>}
  /\ effFn'[e] = "incA" /\ effScheduler'[e] = None /\ effActive'[e]
  /\ CountOf(triggered', <<"o", "set", "a">>) >= 1

\* C19 (as stated): the write that an effect makes inside its own run to a
\* slot it reads does not re-enter the effect, unless the effect has
\* allowRecurse (and no scheduler): then the write re-enters the effect and
\* executes its function again.
C19_AllowRecurseReenters ==
  [][\A e \in UserEffects : SelfWrite(e) =>
       IF effAllowRecurse'[e] THEN reentered' \/ calls'[e] >= 2
       ELSE ~reentered' /\ calls'[e] = 1]_vars

\* C19 (amended): the write that an effect without scheduler makes inside
\* its own run to a slot it reads never re-enters its function.  Without
\* allowRecurse triggerEffects skips the effect; with allowRecurse
\* triggerEffects calls run(), which returns at the parent-chain guard
\* without invoking the function.
C19_GuardStopsReentry ==
  [][\A e \in UserEffects : SelfWrite(e) =>
       /\ ~reentered' /\ calls'[e] = 1 /\ ~overflow'
       /\ guardSkips' = IF effAllowRecurse'[e]
                         THEN CountOf(triggered', <<"o", "set", "a">>)
                         ELSE 0]_vars

\* effect(fn, { allowRecurse: true }) with fn writing the slot it read: run()
\* was called again by the write and returned at the guard
C19_Witness ==
  /\ op = <<"effect", "e1">> /\ effFn["e1"] = "incA" /\ effAllowRecurse["e1"]
  /\ triggered = << <<"o", "set", "a">> >>
  /\ guardSkips = 1 /\ calls["e1"] = 1 /\ ~reentered

\* the value that arr holds under an integer key, Absent from length on
ArrayAt(a, key) ==
  IF KeyIndex(key) < Len(a) THEN a[KeyIndex(key) + 1] ELSE Absent

\* this step writes value arg' under key of target, which held old
WriteOf(target, key, old) ==
  /\ op' = <<(IF target = "o" THEN "set" ELSE "aset"), key>>
  /\ old = IF target = "o" THEN obj[key] ELSE ArrayAt(arr, key)

\* the written keys of o and of arr
WrittenKeys(target) ==
  IF target = "o" THEN {"a"} ELSE {IndexKey(i) : i \in 0..(MaxArr - 1)}

Stored(target, key) ==
  IF target = "o" THEN obj'[key] ELSE ArrayAt(arr', key)

\* this step writes under key of target through the mutable wrapper
Writes(target, key) ==
  op' = <<(IF target = "o" THEN "set" ELSE "aset"), key>>

EnumeratedOnly(e, target) ==
  /\ PlainActive(e)
  /\ effFn[e] = IF target = "arr" THEN "keysArr" ELSE "keysO"

\* C22: an effect that enumerated the keys of o is run once by a write that
\* adds a key and by a delete of an existing key, and is not run by a write
\* to an existing key; an effect that enumerated arr is subscribed to
\* arr.length and is run once by a write of the index arr.length and by a push.
C22_KeyEnumeration ==
  [][\A e \in UserEffects :
       /\ EnumeratedOnly(e, "o") =>
            \A k \in {"a", "b"} :
              /\ op' = <<"set", k>> =>
                   calls'[e] = IF obj[k] = Absent THEN 1 ELSE 0
              /\ (op' = <<"delete", k>> /\ obj[k] # Absent) => calls'[e] = 1
       /\ EnumeratedOnly(e, "arr") =>
            /\ InSeq(e, depSubs[<<"arr", "length">>])
            /\ op' = <<"apush", None>> => calls'[e] = 1
            /\ \A i \in 0..(MaxArr - 1) :
                 op' = <<"aset", IndexKey(i)>> =>
                   calls'[e] = IF i >= Len(arr) THEN 1 ELSE 0]_vars

\* b has been added to o by a write, and the effect that enumerated the keys
\* of o has run once
C22_Witness ==
  /\ op = <<"set", "b">> /\ triggered = << <<"o", "add", "b">> >>
  /\ effFn["e1"] = "keysO" /\ calls["e1"] = 1

\* the cells of arr
ArrCells == {c \in Cells : c[1] = "arr"}

\* C23: an effect whose function only pushes to or pops from arr (and may
\* read o.a afterwards) is subscribed to no cell of arr; a call of push or
\* pop that returns leaves the tracking flag and the tracking stack as they
\* were, so that a read after the push is tracked; and when such an effect
\* is created or run while another one exists and arr has room for the
\* pushed element, its function is executed exactly once and the function of
\* the other not at all.
C23_PausedArrayMethods ==
  [][
      /\ \A e \in UserEffects :
          (effFn'[e] \in MethodFns /\ effActive'[e] /\ ~overflow') =>
            /\ \A c \in ArrCells : ~InSeq(e, depSubs'[c])
            /\ ((effFn'[e] = "pushReadA" /\ ~exc') =>
                  InSeq(e, depSubs'[<<"o", "a">>]))
      /\ (op'[1] \in {"apush", "apop", "effect", "run"} /\ ~exc' /\ ~overflow') =>
            /\ shouldTrack' = shouldTrack
            /\ trackStack' = trackStack
      /\ \A e \in UserEffects : \A f \in UserEffects \ {e} :
          (/\ op' \in {<<"effect", e>>, <<"run", e>>}
           /\ effFn'[e] \in MethodFns /\ effFn'[f] \in MethodFns
           /\ effActive'[e] /\ effActive'[f]
           /\ Len(arr) < MaxArr) =>
            /\ ~overflow' /\ ~exc'
            /\ calls'[e] = 1 /\ calls'[f] = 0]_vars

\* the second of two effects that push to arr has been created: both
\* elements are in arr and only the function of the second has run
C23_Witness ==
  /\ op = <<"effect", "e2">> /\ effFn["e1"] = "pushOne" /\ effFn["e2"] = "pushOne"
  /\ arr = <<Num(1), Num(1)>> /\ calls["e2"] = 1 /\ calls["e1"] = 0
  /\ trackStack = <<>> /\ shouldTrack

\* the elements of seq in the order of their first occurrences
RECURSIVE FirstOccurrences(_)
FirstOccurrences(seq) ==
  IF seq = <<>> THEN <<>>
  ELSE <<seq[1]>> \o FirstOccurrences(SelectSeq(Tail(seq), LAMBDA x : x # seq[1]))

\* the subscribers of the existing cells among `cells`, in the state before
\* the step
RECURSIVE SubsOf(_)
SubsOf(cells) ==
  IF cells = <<>> THEN <<>>
  ELSE (IF InSeq(cells[1][2], depsMap[cells[1][1]]) THEN depSubs[cells[1]]
        ELSE <<>>) \o SubsOf(Tail(cells))

\* the subscribers of `cells`, cell after cell, each subscriber at the place
\* of its first occurrence
InOrder(cells) == FirstOccurrences(SubsOf(cells))

\* the cells of target whose key satisfies Keep, in the order of their creation
CreatedCells(target, Keep(_)) ==
  LET ks == SelectSeq(depsMap[target], Keep)
  IN [i \in 1..Len(ks) |-> <<target, ks[i]>>]

\* the subscribers that the one trigger call of this step invokes, when the
\* affected cells are the key cell and then the iterate cells or the length
\* cell; <<>> when the step is no write that triggers
KeyCellFirst ==
  CASE triggered' = <<>> -> <<>>
    [] op'[1] = "set" ->
         InOrder(IF obj[op'[2]] = Absent
                 THEN << <<"o", op'[2]>>, <<"o", ITERATE_KEY>> >>
                 ELSE << <<"o", op'[2]>> >>)
    [] op'[1] = "delete" -> InOrder(<< <<"o", op'[2]>>, <<"o", ITERATE_KEY>> >>)
    [] op'[1] = "mset" ->
         InOrder(IF map[op'[2]] = Absent
                 THEN << <<"m", op'[2]>>, <<"m", ITERATE_KEY>>,
                         <<"m", MAP_KEY_ITERATE_KEY>> >>
                 ELSE << <<"m", op'[2]>>, <<"m", ITERATE_KEY>> >>)
    [] op'[1] = "mdelete" ->
         InOrder(<< <<"m", op'[2]>>, <<"m", ITERATE_KEY>>,
                    <<"m", MAP_KEY_ITERATE_KEY>> >>)
    [] op'[1] = "apush" ->
         InOrder(<< <<"arr", IndexKey(Len(arr))>>, <<"arr", "length">> >>)
    [] OTHER -> <<>>

\* the step is one of the writes that KeyCellFirst covers
KeyedWrite == op'[1] \in {"set", "delete", "mset", "mdelete", "apush"}

\* the subscribers that the two trigger calls of arr.pop() invoke: those of
\* the deleted index, then those of the length write
PopOrder(lengthCells) ==
  InOrder(<< <<"arr", IndexKey(Len(arr) - 1)>> >>) \o InOrder(lengthCells)

\* C24 (as stated): the subscribers that one trigger call invokes are those
\* of the key cell and then those of the iterate cells or of the length
\* cell, each cell in insertion order, a subscriber at the place of its
\* first occurrence; for the length write of a pop the key cell is the
\* length cell and the cells of the removed indices follow it.
C24_KeyCellThenOthers ==
  [][/\ KeyedWrite => invoked' = KeyCellFirst
     /\ (op'[1] = "apop" /\ Len(arr) > 0) =>
          invoked' = PopOrder(<< <<"arr", "length">> >>
                                \o CreatedCells("arr", LAMBDA k : k # "length" /\ KeyIndex(k) >= Len(arr) - 1))]_vars

\* C24 (amended): as C24 for a write or delete of a key; for a write of the
\* length of an array and for clear() the affected cells (the length cell
\* and the cells of the indices from the new length on; all cells of the
\* Map) are taken in the order in which they were created.
C24_CreationOrderForLengthAndClear ==
  [][/\ KeyedWrite => invoked' = KeyCellFirst
     /\ (op'[1] = "apop" /\ Len(arr) > 0) =>
          invoked' = PopOrder(CreatedCells("arr", LAMBDA k : k = "length" \/ KeyIndex(k) >= Len(arr) - 1))
     /\ (op'[1] = "mclear" /\ triggered' # <<>>) =>
          invoked' = InOrder(CreatedCells("m", LAMBDA k : TRUE))]_vars

\* a key has been added to m while e2 is in the key, size and key-iteration
\* cells and e1, created later, in the key and size cells: e2 then e1 ran
C24_Witness ==
  /\ op = <<"mset", "k1">> /\ triggered = << <<"m", "add", "k1">> >>
  /\ effFn["e1"] = "mGetSize" /\ effFn["e2"] = "mAll"
  /\ depSubs[<<"m", "k1">>] = <<"e2", "e1">>
  /\ invoked = <<"e2", "e1">>

\* C25: pauseTracking and enableTracking push the flag and set it to false
\* and to true, resetTracking pops the flag, or sets it to true when the
\* stack is empty; a nested sequence of calls leaves the flag and the stack
\* as they were; a read made while no effect is active, or inside an effect
\* while the flag is false, adds no subscriber to any cell.
C25_TrackingStack ==
  [][/\ op' = <<"tracking", <<"pause">> >> =>
          trackStack' = Append(trackStack, shouldTrack) /\ ~shouldTrack'
     /\ op' = <<"tracking", <<"enable">> >> =>
          trackStack' = Append(trackStack, shouldTrack) /\ shouldTrack'
     /\ op' = <<"tracking", <<"reset">> >> =>
          IF trackStack = <<>> THEN trackStack' = <<>> /\ shouldTrack'
          ELSE /\ trackStack' = SubSeq(trackStack, 1, Len(trackStack) - 1)
               /\ shouldTrack' = trackStack[Len(trackStack)]
     /\ (op'[1] = "tracking" /\ op'[2] \in Nested) =>
          trackStack' = trackStack /\ shouldTrack' = shouldTrack
     /\ op'[1] = "get" => depSubs' = depSubs /\ effDeps' = effDeps
     /\ (effFn'["e1"] = "pauseReadA" /\ effActive'["e1"]) =>
          /\ ~InSeq("e1", depSubs'[<<"o", "a">>])
          /\ InSeq("e1", depSubs'[<<"o", "b">>])
     /\ (effFn'["e1"] = "nestedTrack" /\ effActive'["e1"]) =>
          /\ InSeq("e1", depSubs'[<<"o", "a">>])
          /\ ~InSeq("e1", depSubs'[<<"o", "b">>])]_vars

\* with tracking paused outside, pause-enable-reset-reset has been called
\* and the flag is false and the stack one deep, as before
C25_Witness ==
  /\ op = <<"tracking", <<"pause", "enable", "reset", "reset">> >>
  /\ trackStack = <<TRUE>> /\ ~shouldTrack
  /\ effFn["e1"] = "pauseReadA"

\* the elements of a sequence
Range(seq) == {seq[i] : i \in 1..Len(seq)}

C27_DirtyAfterGetterThrows ==
  [][/\ (op' = <<"cget", "c">> /\ calls'["ce"] > 0 /\ exc') => cDirty'
     /\ (op = <<"cget", "c">> /\ calls["ce"] > 0 /\ exc /\ op' = <<"cget", "c">>) =>
          calls'["ce"] > 0]_vars

\* C28: whenever no effect is running, a cell is in the deps list of an
\* effect exactly if the effect is a member of the cell, and no cell is
\* twice in a deps list.
C28_GraphConsistency ==
  activeEffect = None =>
    \A e \in Effects :
      /\ \A c \in Cells : InSeq(c, effDeps[e]) <=> InSeq(e, depSubs[c])
      /\ \A i, j \in 1..Len(effDeps[e]) :
           effDeps[e][i] = effDeps[e][j] => i = j

\* e1, whose function reads o.a twice, has run twice: it is once in the cell
\* of o.a, and the cell is once in its deps list
C28_Witness ==
  /\ op = <<"run", "e1">> /\ effFn["e1"] = "readAA" /\ activeEffect = None
  /\ effDeps["e1"] = << <<"o", "a">> >>
  /\ InSeq("e1", depSubs[<<"o", "a">>])

\* the cells of o and of m
RawCells == {c \in Cells : c[1] \in {"o", "m"}}

\* the step is a change of o or of m made through a mutable wrapper
MutableWrite == op'[1] \in {"set", "delete", "mset", "mdelete", "mclear"}

\* C29 (as stated): an effect that read o and m only through a readonly or
\* shallow-readonly wrapper is in no cell of o or m, and no change of o or
\* m made through a mutable wrapper runs it.
C29_ReadonlyReadsUntracked ==
  [][\A e \in UserEffects :
       effFn'[e] \in ReadonlyWrappers =>
         /\ \A c \in RawCells : ~InSeq(e, depSubs'[c])
         /\ MutableWrite => calls'[e] = 0]_vars

\* C29 (amended): this holds for the readonly and shallow-readonly wrappers
\* of a raw object.  Through the readonly wrapper of a reactive wrapper the
\* reads are passed on to the reactive wrapper, which tracks them: the
\* effect is in the cells of the slots it read, and a change that triggers
\* one of them runs it.
C29_ReadonlyOfRawUntracked ==
  [][\A e \in UserEffects :
       /\ effFn'[e] \in {"readonly", "shallowReadonly"} =>
            /\ \A c \in RawCells : ~InSeq(e, depSubs'[c])
            /\ MutableWrite => calls'[e] = 0
       /\ (effFn'[e] = "readonlyOfReactive" /\ effActive'[e]) =>
            /\ \A c \in {<<"o", "a">>, <<"m", "k1">>, <<"m", "k2">>,
                          <<"m", ITERATE_KEY>>, <<"m", MAP_KEY_ITERATE_KEY>>} :
                 InSeq(e, depSubs'[c])
            /\ (MutableWrite /\ effFn[e] # None /\ triggered' # <<>>) =>
                 calls'[e] = 1]_vars

\* o.a has been changed through reactive(o) while e1 had read o and m
\* through readonly wrappers of the raw objects: e1 has not run
C29_Witness ==
  /\ op = <<"set", "a">> /\ triggered = << <<"o", "set", "a">> >>
  /\ effFn["e1"] = "readonly" /\ effActive["e1"] /\ calls["e1"] = 0
  /\ effFn["e2"] = "readA" /\ calls["e2"] = 1


\* occurrences of a job in the queue at index fromIndex (from 0) or later
Occurrences(job, fromIndex) ==
  Cardinality({i \in (fromIndex + 1)..Len(sched.queue) : sched.queue[i] = job})
\* the job the flush loop is executing, also while a flushPreFlushCbs it called is going on
Running(job) ==
  /\ sched.pc = "job" \/ (sched.pc = "pre" /\ sched.currentPreFlushParentJob # None)
  /\ sched.queue[sched.flushIndex + 1] = job

\* C30: among the entries of the queue that have not finished (those from flushIndex on) no job
\* occurs twice, except that a running job with allowRecurse may occur once more after
\* flushIndex; a running job without allowRecurse is never queued again by its own execution;
\* and queueJob never adds the job that is the current pre-flush parent job.
C30_QueueJobDeduplicates ==
  /\ [](\A job \in Jobs :
          Occurrences(job, sched.flushIndex)
            <= IF Running(job) /\ allowRecurse(job) THEN 2 ELSE 1)
  /\ [][\A job \in Jobs :
          job = sched.currentPreFlushParentJob
            => Cardinality({i \in 1..Len(sched.queue') : sched.queue'[i] = job})
                 <= Occurrences(job, 0)]_vars


\* the entries of a queue from index fromIndex (from 0) on are in ascending id order, jobs without id last
SortedFrom(queue, fromIndex) ==
  \A i, k \in (fromIndex + 1)..Len(queue) : i < k => getId(queue[i]) <= getId(queue[k])
\* the flush loop is at a job: one is executing, or a flushPreFlushCbs it called is going on
InJobLoop(q) == q.pc = "job" \/ (q.pc = "pre" /\ q.currentPreFlushParentJob # None)

\* C31: while a flush is going on the part of the queue after flushIndex is in ascending id
\* order with the jobs without id last, whatever queueJob and invalidateJob calls were made;
\* when the loop starts the whole queue is in that order, so of two pending jobs the one
\* with the smaller id runs first; and while the loop is at a job no call moves the entries
\* up to flushIndex, so the loop, which goes up by one, runs every entry once.
C31_QueueOrder ==
  /\ [](sched.isFlushing => SortedFrom(sched.queue, sched.flushIndex + 1))
  /\ [][(~InJobLoop(sched) /\ InJobLoop(sched')) => SortedFrom(sched.queue', 0)]_vars
  /\ [][(InJobLoop(sched) /\ InJobLoop(sched') /\ sched.flushIndex' = sched.flushIndex)
          => SubSeq(sched.queue', 1, sched.flushIndex + 1)
               = SubSeq(sched.queue, 1, sched.flushIndex + 1)]_vars

\* j2 is running after j1 has run, and j1, queued again by it, stands before j3
C31_Witness ==
  /\ sched.pc = "job"
  /\ sched.flushIndex = 1
  /\ sched.queue = <<"j1", "j2", "j1", "j3">>


\* no element of a sequence occurs in it twice
NoDuplicate(seq) == \A i, k \in 1..Len(seq) : i # k => seq[i] # seq[k]
\* the step by which flushJobs comes to the first job of a round
StartsJobs == ~InJobLoop(sched) /\ InJobLoop(sched')
\* the step by which the last post-flush callback of a round returns and the next round,
\* with nothing else to run, starts with the post-flush callbacks queued meanwhile
NextRoundPost ==
  /\ sched.pc = "post" /\ sched.pc' = "post"
  /\ sched.postFlushIndex + 1 = Len(sched.activePostFlushCbs)
  /\ sched.pendingPostFlushCbs # <<>> /\ sched.pendingPostFlushCbs' = <<>>
  /\ Len(sched.activePostFlushCbs') = Len(Dedup(sched.pendingPostFlushCbs))
\* the step by which flushJobs comes to the first post-flush callback of a round
StartsPost == sched.pc' = "post" /\ (sched.pc # "post" \/ NextRoundPost)
\* when the job loop of a round starts no pre-flush callback is pending or active, and when
\* its post-flush phase starts the job that returns is the last of the queue
PreThenJobsThenPost ==
  /\ [][StartsJobs => (sched.pendingPreFlushCbs' = <<>> /\ sched.activePreFlushCbs' = <<>>)]_vars
  /\ [][StartsPost => (/\ sched.pc = "job" => sched.flushIndex + 1 = Len(sched.queue)
                       /\ sched.pc # "job" => sched.queue = <<>>
                       /\ sched.queue' = <<>>)]_vars
  /\ [](InJobLoop(sched) => sched.activePostFlushCbs = <<>>)

JobPending(job) ==
  \E i \in (IF InJobLoop(sched) THEN sched.flushIndex + 2 ELSE 1)..Len(sched.queue) :
    sched.queue[i] = job
PrePending(cb) == \E i \in 1..Len(sched.pendingPreFlushCbs) : sched.pendingPreFlushCbs[i] = cb
PostPending(cb) == \E i \in 1..Len(sched.pendingPostFlushCbs) : sched.pendingPostFlushCbs[i] = cb
\* the flush is executing the job or the callback
JobExecuting(job) == sched.pc = "job" /\ sched.queue[sched.flushIndex + 1] = job
PreExecuting(cb) ==
  sched.pc = "pre" /\ sched.activePreFlushCbs[sched.preFlushIndex + 1] = cb
PostExecuting(cb) ==
  sched.pc = "post" /\ sched.activePostFlushCbs[sched.postFlushIndex + 1] = cb

Without(seq, i) == SubSeq(seq, 1, i - 1) \o SubSeq(seq, i + 1, Len(seq))
\* a step that takes an entry out of the queue while the flush stays where it is: a call of
\* invalidateJob that removed something
Removes == Len(sched.queue') < Len(sched.queue) /\ sched.queue' # <<>>
\* the step takes out exactly the entry at place i (from 1) and changes nothing else
RemovesOnly(i) == sched' = [sched EXCEPT !.queue = Without(sched.queue, i)]

\* C34 (as stated): a call of invalidateJob that removes a job removes one entry at an index
\* greater than flushIndex and changes nothing else, the running and the finished entries
\* included, and afterwards the job does not wait in the queue of the current flush any more.
C34_InvalidateJob ==
  [][Removes => \E i \in (sched.flushIndex + 2)..Len(sched.queue) :
                  /\ RemovesOnly(i)
                  /\ \A k \in (sched.flushIndex + 2)..Len(sched.queue') :
                       sched.queue'[k] # sched.queue[i]]_vars


C36_WatchStopped ==
  ~sched.watcher.sourceAfterStop /\ ~sched.watcher.cbAfterStop


\* C37 (as stated): whenever no effect is running (effectTrackDepth = 0), every dependency
\* cell has wasTracked and newlyTracked (w and n) equal to zero.
C37_MarkersCleanAtRest ==
  effectTrackDepth = 0 => \A c \in DOMAIN depW : depW[c] = 0 /\ depN[c] = 0


\* C38 (as stated): no triggerEffects loop invokes the function or the scheduler of an
\* effect whose stop() has returned, whether the effect was stopped before the trigger call
\* or by an earlier subscriber of the same call.
C38_NoTriggerAfterStop ==
  invokedStopped = {}


\* C39: an operation that makes one trigger call invokes no effect twice, and a write from
\* outside of any effect that makes one trigger call invokes the subscribers the cell had
\* when the write began, each once and in their order, and none that was added to the cell
\* while they ran; the operation ends within the nesting bound.
C39_TriggerSnapshot ==
  [][(Len(triggered') = 1) =>
       /\ ~overflow'
       /\ NoDuplicate(invoked')
       /\ op'[1] = "set" => invoked' = SubsOf(<< <<"o", op'[2]>> >>)]_vars

\* the write o.a = v invoked e1 alone, whose run called the runner of e2, which read o.a
\* and became a subscriber of the cell during the call
C39_Witness ==
  /\ op = <<"set", "a">>
  /\ effFn["e1"] = "readARunE2"
  /\ invoked = <<"e1">>
  /\ depSubs[<<"o", "a">>] = <<"e1", "e2">>


\* C40 (as stated): whenever no flush is executing, isFlushing is false, flushIndex is 0,
\* the active pre-flush and post-flush lists are null, and the queue holds jobs only if a
\* flush is scheduled for them, whatever has thrown; so a job that was queued is not left
\* without a scheduled flush.
C40_FlushStateReset ==
  sched.pc = "idle" =>
    /\ ~sched.isFlushing
    /\ sched.flushIndex = 0
    /\ sched.activePreFlushCbs = <<>>
    /\ sched.activePostFlushCbs = <<>>
    /\ sched.queue # <<>> => sched.isFlushPending

====
